---- MODULE Spec2Model ----
(***************************************************************************)
(* Model of the SolenoidDriver library (SolenoidConfig.h,                  *)
(* SolenoidChannel.cpp, SolenoidDriver.cpp): per-channel timing and        *)
(* duty-cycle bookkeeping, the safety gate of activations, the periodic    *)
(* timeout sweep and the single-channel and bulk control operations,       *)
(* running against MCP23017 port expanders on one I2C bus.                 *)
(*                                                                         *)
(* millis() is a wrapping unsigned counter and every timestamp difference  *)
(* is taken modulo its range.  TLC integers are 32-bit signed, so the      *)
(* counter is given ClockBits bits instead of 32: UINT32_MAX stands for    *)
(* the largest counter value, the wrap to 0 follows it.  maxDutyCycle and   *)
(* the duty-cycle ratios are floats in the source; they are modelled as    *)
(* exact fractions [n, d].  The limits used                                *)
(* (1/2, 3/4, 1) are exact in binary floating point and the operands stay  *)
(* within 2^24, so every float comparison of the source has the value of   *)
(* the exact comparison.                                                   *)
(***************************************************************************)
EXTENDS Integers, Sequences, FiniteSets, TLC

\* ---------------------------------------------------------------------------
\* Program constants (SolenoidConfig.h)
\* ---------------------------------------------------------------------------
SOLENOID_MAX_BOARDS_PER_BUS == 8
SOLENOID_CHANNELS_PER_BOARD == 8
SOLENOID_DEFAULT_MAX_ON_TIME_MS == 5000
SOLENOID_DEFAULT_MIN_OFF_TIME_MS == 50
SOLENOID_DEFAULT_DUTY_CYCLE_WINDOW_MS == 10000
SOLENOID_DEFAULT_I2C_TIMEOUT_MS == 100
SOLENOID_DEFAULT_I2C_CLOCK_HZ == 400000
MCP23017_BASE_ADDRESS == 32
MCP23017_MAX_ADDRESS == 39
DefaultEstimatedOnTime == 100
GlobalChannel == 255

SOLENOID_DEFAULT_MAX_DUTY_CYCLE == [n |-> 1, d |-> 2]

\* enum class SolenoidError
OK == "OK"
NOT_INITIALIZED == "NOT_INITIALIZED"
INVALID_CHANNEL == "INVALID_CHANNEL"
INVALID_BOARD == "INVALID_BOARD"
I2C_COMMUNICATION == "I2C_COMMUNICATION"
SAFETY_TIMEOUT == "SAFETY_TIMEOUT"
SAFETY_COOLDOWN == "SAFETY_COOLDOWN"
DUTY_CYCLE_EXCEEDED == "DUTY_CYCLE_EXCEEDED"

\* struct SolenoidConfig with its default member initialisers
SolenoidConfig ==
    [ maxOnTimeMs       |-> SOLENOID_DEFAULT_MAX_ON_TIME_MS,
      minOffTimeMs      |-> SOLENOID_DEFAULT_MIN_OFF_TIME_MS,
      maxDutyCycle      |-> SOLENOID_DEFAULT_MAX_DUTY_CYCLE,
      dutyCycleWindowMs |-> SOLENOID_DEFAULT_DUTY_CYCLE_WINDOW_MS,
      i2cTimeoutMs      |-> SOLENOID_DEFAULT_I2C_TIMEOUT_MS,
      i2cClockHz        |-> SOLENOID_DEFAULT_I2C_CLOCK_HZ,
      safetyEnabled     |-> TRUE,
      debugEnabled      |-> FALSE ]

\* ---------------------------------------------------------------------------
\* Bounds of the model
\* ---------------------------------------------------------------------------
\* Total time (ms) the clock advances in one behaviour.
MaxTime == 2
\* Width in bits of the millisecond counter and of the other uint32_t values.
ClockBits == 24
\* Largest activation count a channel reaches (further activations are not taken).
MaxActivations == 2
\* Control loop: longest time (ms) between two update() calls, pulse() aside.
LoopPeriod == 1
\* Control loop: total time (ms) the clock advances in one behaviour.
LoopTime == 6
\* Control loop: number of control calls (update() aside) in one behaviour.
LoopCalls == 2
\* Scenario: number of calls recorded.
MaxCalls == 4
DutyCalls == 8
BulkCalls == 3
DutyTime == 1000
TuneCalls == 1
OrderTime == 4
EstimateTime == 200

BoardIdx   == 0 .. (SOLENOID_MAX_BOARDS_PER_BUS - 1)
PinIdx     == 0 .. (SOLENOID_CHANNELS_PER_BOARD - 1)

\* begin() is called with these address arrays; the chips named in them are the
\* chips on the bus, and only the channel objects of so many boards are ever
\* used
BeginInputs == { <<MCP23017_BASE_ADDRESS>>,
                 <<MCP23017_BASE_ADDRESS, MCP23017_BASE_ADDRESS + 1>> }
ChipAddrs  == UNION { { a[i] : i \in 1 .. Len(a) } : a \in BeginInputs }
ChannelIdx == 0 .. (Cardinality(ChipAddrs) * SOLENOID_CHANNELS_PER_BOARD - 1)

\* ---------------------------------------------------------------------------
\* uint32_t / uint8_t arithmetic
\* ---------------------------------------------------------------------------
Mod32 == 2 ^ ClockBits
UINT32_MAX == Mod32 - 1
Sub32(a, b) == (a - b + Mod32) % Mod32
Add32(a, b) == (a + b) % Mod32

Pow2(i) == 2 ^ i
Bit(m, i) == (m \div Pow2(i)) % 2
SetBit(m, i) == IF Bit(m, i) = 1 THEN m ELSE m + Pow2(i)
ClearBit(m, i) == IF Bit(m, i) = 1 THEN m - Pow2(i) ELSE m

\* comparisons of float values held as fractions [n, d] with d > 0
Ratio(num, den) == [n |-> num, d |-> den]
Zero == Ratio(0, 1)
One == Ratio(1, 1)
RatGe(a, b) == a.n * b.d >= b.n * a.d
RatGt(a, b) == a.n * b.d > b.n * a.d
RatLt(a, b) == a.n * b.d < b.n * a.d

\* ---------------------------------------------------------------------------
\* SolenoidChannel (SolenoidChannel.cpp)
\* ---------------------------------------------------------------------------
SolenoidChannel(board, chan, global) ==
    [ boardIndex      |-> board,
      channelIndex    |-> chan,
      globalIndex     |-> global,
      isOn            |-> FALSE,
      lastOnTime      |-> 0,
      lastOffTime     |-> 0,
      totalOnTime     |-> 0,
      activationCount |-> 0,
      windowStartTime |-> 0,
      windowOnTime    |-> 0 ]

onDuration(ch, millis) ==
    IF ~ch.isOn THEN 0 ELSE Sub32(millis, ch.lastOnTime)

timeSinceOff(ch, millis) ==
    IF ch.lastOffTime = 0 THEN UINT32_MAX ELSE Sub32(millis, ch.lastOffTime)

resetStats(ch) ==
    [ch EXCEPT !.totalOnTime = 0, !.activationCount = 0,
               !.windowStartTime = 0, !.windowOnTime = 0]

\* updateState that stamps the turn-on time at every request to be on
updateStateRestamping(ch, isOn, millis) ==
    IF isOn
    THEN [ch EXCEPT !.lastOnTime = millis,
                    !.activationCount = Add32(@, 1),
                    !.isOn = TRUE,
                    !.windowStartTime = IF @ = 0 THEN millis ELSE @]
    ELSE IF ~isOn /\ ch.isOn
    THEN LET thisDuration == Sub32(millis, ch.lastOnTime) IN
         [ch EXCEPT !.totalOnTime = Add32(@, thisDuration),
                    !.windowOnTime = Add32(@, thisDuration),
                    !.lastOffTime = millis,
                    !.lastOnTime = 0,
                    !.isOn = FALSE]
    ELSE ch

\* updateState that does not add a finished activation to the on-time of the
\* duty-cycle window
updateStateOutsideWindow(ch, isOn, millis) ==
    IF isOn /\ ~ch.isOn
    THEN [ch EXCEPT !.lastOnTime = millis,
                    !.activationCount = Add32(@, 1),
                    !.isOn = TRUE,
                    !.windowStartTime = IF @ = 0 THEN millis ELSE @]
    ELSE IF ~isOn /\ ch.isOn
    THEN LET thisDuration == Sub32(millis, ch.lastOnTime) IN
         [ch EXCEPT !.totalOnTime = Add32(@, thisDuration),
                    !.lastOffTime = millis,
                    !.lastOnTime = 0,
                    !.isOn = FALSE]
    ELSE ch

updateState(ch, isOn, millis) ==
    IF isOn /\ ~ch.isOn
    THEN [ch EXCEPT !.lastOnTime = millis,
                    !.activationCount = Add32(@, 1),
                    !.isOn = TRUE,
                    !.windowStartTime = IF @ = 0 THEN millis ELSE @]
    ELSE IF ~isOn /\ ch.isOn
    THEN LET thisDuration == Sub32(millis, ch.lastOnTime) IN
         [ch EXCEPT !.totalOnTime = Add32(@, thisDuration),
                    !.windowOnTime = Add32(@, thisDuration),
                    !.lastOffTime = millis,
                    !.lastOnTime = 0,
                    !.isOn = FALSE]
    ELSE ch

updateWindow(ch, windowDurationMs, millis) ==
    IF ch.windowStartTime = 0
    THEN [ch EXCEPT !.windowStartTime = millis, !.windowOnTime = 0]
    ELSE IF Sub32(millis, ch.windowStartTime) >= windowDurationMs
    THEN [ch EXCEPT !.windowStartTime = millis, !.windowOnTime = 0]
    ELSE ch

\* the channel object after getDutyCyclePercent has run: the call is not const,
\* it starts the window or resets an expired one through updateWindow
dutyWindowChannel(ch, windowDurationMs, millis) ==
    IF windowDurationMs = 0 THEN ch ELSE updateWindow(ch, windowDurationMs, millis)

\* the value getDutyCyclePercent returns
getDutyCyclePercent(ch, windowDurationMs, millis) ==
    IF windowDurationMs = 0 THEN Zero
    ELSE LET c == updateWindow(ch, windowDurationMs, millis)
             windowElapsed == Sub32(millis, c.windowStartTime)
             onTimeInWindow ==
                 IF c.isOn /\ c.lastOnTime >= c.windowStartTime
                 THEN Add32(c.windowOnTime, Sub32(millis, c.lastOnTime))
                 ELSE IF c.isOn /\ c.lastOnTime < c.windowStartTime
                 THEN Add32(c.windowOnTime, Sub32(millis, c.windowStartTime))
                 ELSE c.windowOnTime
             capped == IF windowElapsed > windowDurationMs
                       THEN windowDurationMs ELSE windowElapsed
         IN IF windowElapsed = 0 THEN Zero ELSE Ratio(onTimeInWindow, capped)

wouldExceedDutyCycle(ch, windowDurationMs, maxDutyCycle, estimatedOnTimeMs, millis) ==
    IF windowDurationMs = 0 \/ RatGe(maxDutyCycle, One) THEN FALSE
    ELSE LET windowElapsed == IF ch.windowStartTime > 0
                              THEN Sub32(millis, ch.windowStartTime) ELSE 0
             onTimeInWindow ==
                 IF ch.isOn /\ ch.lastOnTime >= ch.windowStartTime
                 THEN Add32(ch.windowOnTime, Sub32(millis, ch.lastOnTime))
                 ELSE IF ch.isOn /\ ch.lastOnTime > 0 /\ ch.windowStartTime > 0
                         /\ ch.lastOnTime < ch.windowStartTime
                 THEN Add32(ch.windowOnTime, Sub32(millis, ch.windowStartTime))
                 ELSE ch.windowOnTime
             projectedOnTime == Add32(onTimeInWindow, estimatedOnTimeMs)
             elapsedPlus == Add32(windowElapsed, estimatedOnTimeMs)
             projectedWindowElapsed == IF elapsedPlus > windowDurationMs
                                       THEN windowDurationMs ELSE elapsedPlus
         IN IF projectedWindowElapsed = 0 THEN FALSE
            ELSE RatGt(Ratio(projectedOnTime, projectedWindowElapsed), maxDutyCycle)

\* ---------------------------------------------------------------------------
\* SolenoidDriver (SolenoidDriver.cpp).  The operations are functions of a
\* record s that holds the driver object, the clock, the output latches of the
\* port expanders and the bookkeeping of the observer; s.ret is the value the
\* call returns.
\* ---------------------------------------------------------------------------
reportError(s, error, channel) ==
    [s EXCEPT !.lastError = error, !.reported = Append(@, <<error, channel>>)]

globalToLocalSwapped(globalChannel) ==
    [ board        |-> globalChannel % SOLENOID_CHANNELS_PER_BOARD,
      localChannel |-> globalChannel \div SOLENOID_CHANNELS_PER_BOARD ]

globalToLocal(globalChannel) ==
    [ board        |-> globalChannel \div SOLENOID_CHANNELS_PER_BOARD,
      localChannel |-> globalChannel % SOLENOID_CHANNELS_PER_BOARD ]

\* the GPIOA output latch of the chip at addr takes value; highFor counts how
\* long each output has been high without interruption
portWrite(s, addr, value) ==
    [s EXCEPT !.hw[addr] = value,
              !.highFor[addr] = [p \in PinIdx |->
                  IF Bit(value, p) = 1 /\ Bit(s.hw[addr], p) = 1 THEN @[p] ELSE 0]]

\* one more transaction on the bus in the course of the call
busWrite(s, transaction) == [s EXCEPT !.bus = Append(@, transaction)]

\* Adafruit_MCP23X17::writeGPIOA and ::digitalWrite of _mcp[board]
writeGPIOA(s, board, value) ==
    busWrite(portWrite(s, s.boardAddresses[board], value), <<"writeGPIOA", board, value>>)

digitalWrite(s, board, pin, high) ==
    LET addr == s.boardAddresses[board] IN
    busWrite(portWrite(s, addr, IF high THEN SetBit(s.hw[addr], pin)
                                ELSE ClearBit(s.hw[addr], pin)),
             <<"digitalWrite", board, pin>>)

\* _channels[g].updateState(isOn); sinceOff[g] is the time since the channel
\* object was last switched from on to off (-1: never)
setChannelState(s, g, isOn) ==
    [s EXCEPT !.channels[g] = updateState(@, isOn, s.now),
              !.sinceOff[g] = IF s.channels[g].isOn /\ ~isOn THEN 0 ELSE @]

writeChannelOk(s, board, channel) ==
    ~(board >= s.boardCount \/ channel >= SOLENOID_CHANNELS_PER_BOARD)

\* writeChannel without the pin write: only the cached mask changes
writeChannelCacheOnly(s, board, channel, state) ==
    IF ~writeChannelOk(s, board, channel) THEN s
    ELSE [s EXCEPT !.boardStates[board] =
              IF state THEN SetBit(@, channel) ELSE ClearBit(@, channel)]

writeChannel(s, board, channel, state) ==
    IF ~writeChannelOk(s, board, channel) THEN s
    ELSE digitalWrite(
           [s EXCEPT !.boardStates[board] =
                IF state THEN SetBit(@, channel) ELSE ClearBit(@, channel)],
           board, channel, state)

writeBoardOk(s, board) == ~(board >= s.boardCount)

writeBoardCacheOnly(s, board, states) ==
    IF ~writeBoardOk(s, board) THEN s
    ELSE [s EXCEPT !.boardStates[board] = states]

writeBoard(s, board, states) ==
    IF ~writeBoardOk(s, board) THEN s
    ELSE writeGPIOA([s EXCEPT !.boardStates[board] = states], board, states)

\* the estimate raised to the 100 ms fallback when minOffTimeMs is below it
estimatedOnTimeAtLeastDefault(cfg) ==
    IF cfg.minOffTimeMs > DefaultEstimatedOnTime
    THEN cfg.minOffTimeMs ELSE DefaultEstimatedOnTime

\* the on-time isSafeToActivate assumes for the activation asked for
estimatedOnTime(cfg) ==
    IF cfg.minOffTimeMs > 0 THEN cfg.minOffTimeMs ELSE DefaultEstimatedOnTime

\* isSafeToActivate that looks at the duty cycle before the cooldown
isSafeToActivateDutyFirst(s, channel) ==
    IF channel >= s.channelCount THEN [safe |-> FALSE, s |-> s]
    ELSE
    LET ch  == s.channels[channel]
        cfg == s.config
        ch2 == dutyWindowChannel(ch, cfg.dutyCycleWindowMs, s.now)
        s2  == [s EXCEPT !.channels[channel] = ch2]
    IN
    IF /\ RatLt(cfg.maxDutyCycle, One) /\ cfg.dutyCycleWindowMs > 0
       /\ \/ RatGe(getDutyCyclePercent(ch, cfg.dutyCycleWindowMs, s.now), cfg.maxDutyCycle)
          \/ wouldExceedDutyCycle(ch2, cfg.dutyCycleWindowMs, cfg.maxDutyCycle,
                                  estimatedOnTime(cfg), s.now)
    THEN [safe |-> FALSE, s |-> reportError(s2, DUTY_CYCLE_EXCEEDED, channel)]
    ELSE IF cfg.minOffTimeMs > 0 /\ timeSinceOff(ch, s.now) < cfg.minOffTimeMs
    THEN [safe |-> FALSE, s |-> reportError(s, SAFETY_COOLDOWN, channel)]
    ELSE [safe |-> TRUE, s |-> IF RatLt(cfg.maxDutyCycle, One) /\ cfg.dutyCycleWindowMs > 0
                               THEN s2 ELSE s]

\* [safe |-> the value returned, s |-> the state the call leaves]
isSafeToActivate(s, channel) ==
    IF channel >= s.channelCount THEN [safe |-> FALSE, s |-> s]
    ELSE
    LET ch  == s.channels[channel]
        cfg == s.config
    IN
    IF cfg.minOffTimeMs > 0 /\ timeSinceOff(ch, s.now) < cfg.minOffTimeMs
    THEN [safe |-> FALSE, s |-> reportError(s, SAFETY_COOLDOWN, channel)]
    ELSE IF RatLt(cfg.maxDutyCycle, One) /\ cfg.dutyCycleWindowMs > 0
    THEN LET currentDutyCycle == getDutyCyclePercent(ch, cfg.dutyCycleWindowMs, s.now)
             ch2 == dutyWindowChannel(ch, cfg.dutyCycleWindowMs, s.now)
             s2  == [s EXCEPT !.channels[channel] = ch2]
         IN IF RatGe(currentDutyCycle, cfg.maxDutyCycle)
            THEN [safe |-> FALSE, s |-> reportError(s2, DUTY_CYCLE_EXCEEDED, channel)]
            ELSE IF wouldExceedDutyCycle(ch2, cfg.dutyCycleWindowMs, cfg.maxDutyCycle,
                                         estimatedOnTime(cfg), s.now)
            THEN [safe |-> FALSE, s |-> reportError(s2, DUTY_CYCLE_EXCEEDED, channel)]
            ELSE [safe |-> TRUE, s |-> s2]
    ELSE [safe |-> TRUE, s |-> s]

Return(s, value) == [s EXCEPT !.ret = value]
ReturnLastError(s) == [s EXCEPT !.ret = s.lastError]
ReturnOK(s) == [s EXCEPT !.lastError = OK, !.ret = OK]

\* on() that takes a channel number past the last channel modulo the number of
\* channels
onWrappingChannel(s, channel) ==
    IF ~s.initialized THEN ReturnLastError(reportError(s, NOT_INITIALIZED, channel))
    ELSE
    LET c == channel % s.channelCount IN
    IF s.channels[c].isOn THEN ReturnOK(s)
    ELSE
    LET chk == IF s.config.safetyEnabled THEN isSafeToActivate(s, c)
               ELSE [safe |-> TRUE, s |-> s]
        loc == globalToLocal(c)
    IN IF ~chk.safe THEN ReturnLastError(chk.s)
       ELSE IF ~writeChannelOk(chk.s, loc.board, loc.localChannel)
       THEN ReturnLastError(reportError(chk.s, I2C_COMMUNICATION, c))
       ELSE ReturnOK(setChannelState(
                writeChannel(chk.s, loc.board, loc.localChannel, TRUE), c, TRUE))

\* on() that makes the safety check also when safetyEnabled is false
onCheckingAlways(s, channel) ==
    IF ~s.initialized THEN ReturnLastError(reportError(s, NOT_INITIALIZED, channel))
    ELSE IF channel >= s.channelCount
    THEN ReturnLastError(reportError(s, INVALID_CHANNEL, channel))
    ELSE IF s.channels[channel].isOn THEN ReturnOK(s)
    ELSE
    LET chk == isSafeToActivate(s, channel)
        loc == globalToLocal(channel)
    IN IF ~chk.safe THEN ReturnLastError(chk.s)
       ELSE IF ~writeChannelOk(chk.s, loc.board, loc.localChannel)
       THEN ReturnLastError(reportError(chk.s, I2C_COMMUNICATION, channel))
       ELSE ReturnOK(setChannelState(
                writeChannel(chk.s, loc.board, loc.localChannel, TRUE), channel, TRUE))

\* on() that stamps the turn-on time anew when the channel is already on
onRestamping(s, channel) ==
    IF ~s.initialized THEN ReturnLastError(reportError(s, NOT_INITIALIZED, channel))
    ELSE IF channel >= s.channelCount
    THEN ReturnLastError(reportError(s, INVALID_CHANNEL, channel))
    ELSE IF s.channels[channel].isOn
    THEN ReturnOK([s EXCEPT !.channels[channel].lastOnTime = s.now])
    ELSE
    LET chk == IF s.config.safetyEnabled THEN isSafeToActivate(s, channel)
               ELSE [safe |-> TRUE, s |-> s]
        loc == globalToLocal(channel)
    IN IF ~chk.safe THEN ReturnLastError(chk.s)
       ELSE IF ~writeChannelOk(chk.s, loc.board, loc.localChannel)
       THEN ReturnLastError(reportError(chk.s, I2C_COMMUNICATION, channel))
       ELSE ReturnOK(setChannelState(
                writeChannel(chk.s, loc.board, loc.localChannel, TRUE), channel, TRUE))

\* on() that counts a refused attempt as an activation
onCountingAttempts(s, channel) ==
    IF ~s.initialized THEN ReturnLastError(reportError(s, NOT_INITIALIZED, channel))
    ELSE IF channel >= s.channelCount
    THEN ReturnLastError(reportError(s, INVALID_CHANNEL, channel))
    ELSE IF s.channels[channel].isOn THEN ReturnOK(s)
    ELSE
    LET chk == IF s.config.safetyEnabled THEN isSafeToActivate(s, channel)
               ELSE [safe |-> TRUE, s |-> s]
        loc == globalToLocal(channel)
    IN IF ~chk.safe
       THEN ReturnLastError([chk.s EXCEPT !.channels[channel].activationCount = @ + 1])
       ELSE IF ~writeChannelOk(chk.s, loc.board, loc.localChannel)
       THEN ReturnLastError(reportError(chk.s, I2C_COMMUNICATION, channel))
       ELSE ReturnOK(setChannelState(
                writeChannel(chk.s, loc.board, loc.localChannel, TRUE), channel, TRUE))

on(s, channel) ==
    IF ~s.initialized THEN ReturnLastError(reportError(s, NOT_INITIALIZED, channel))
    ELSE IF channel >= s.channelCount
    THEN ReturnLastError(reportError(s, INVALID_CHANNEL, channel))
    ELSE IF s.channels[channel].isOn THEN ReturnOK(s)
    ELSE
    LET chk == IF s.config.safetyEnabled THEN isSafeToActivate(s, channel)
               ELSE [safe |-> TRUE, s |-> s]
        loc == globalToLocal(channel)
    IN IF ~chk.safe THEN ReturnLastError(chk.s)
       ELSE IF ~writeChannelOk(chk.s, loc.board, loc.localChannel)
       THEN ReturnLastError(reportError(chk.s, I2C_COMMUNICATION, channel))
       ELSE ReturnOK(setChannelState(
                writeChannel(chk.s, loc.board, loc.localChannel, TRUE), channel, TRUE))

\* off() that holds a channel on until it has been on for minOffTimeMs
offAfterMinimumOnTime(s, channel) ==
    IF ~s.initialized THEN ReturnLastError(reportError(s, NOT_INITIALIZED, channel))
    ELSE IF channel >= s.channelCount
    THEN ReturnLastError(reportError(s, INVALID_CHANNEL, channel))
    ELSE IF ~s.channels[channel].isOn THEN ReturnOK(s)
    ELSE IF s.config.safetyEnabled
            /\ onDuration(s.channels[channel], s.now) < s.config.minOffTimeMs
    THEN ReturnLastError(reportError(s, SAFETY_COOLDOWN, channel))
    ELSE
    LET loc == globalToLocal(channel) IN
    ReturnOK(setChannelState(
        writeChannel(s, loc.board, loc.localChannel, FALSE), channel, FALSE))

off(s, channel) ==
    IF ~s.initialized THEN ReturnLastError(reportError(s, NOT_INITIALIZED, channel))
    ELSE IF channel >= s.channelCount
    THEN ReturnLastError(reportError(s, INVALID_CHANNEL, channel))
    ELSE IF ~s.channels[channel].isOn THEN ReturnOK(s)
    ELSE
    LET loc == globalToLocal(channel) IN
    IF ~writeChannelOk(s, loc.board, loc.localChannel)
    THEN ReturnLastError(reportError(s, I2C_COMMUNICATION, channel))
    ELSE ReturnOK(setChannelState(
             writeChannel(s, loc.board, loc.localChannel, FALSE), channel, FALSE))

set(s, channel, state) == IF state THEN on(s, channel) ELSE off(s, channel)

toggle(s, channel) ==
    IF channel >= s.channelCount
    THEN ReturnLastError(reportError(s, INVALID_CHANNEL, channel))
    ELSE set(s, channel, ~s.channels[channel].isOn)

\* delay(ms) and every other passage of time: millis() moves on by ms
advance(s, ms) ==
    [s EXCEPT !.now = Add32(@, ms),
              !.elapsed = @ + ms,
              !.highFor = [a \in ChipAddrs |-> [p \in PinIdx |->
                              IF Bit(s.hw[a], p) = 1 THEN @[a][p] + ms ELSE @[a][p]]],
              !.sinceOff = [g \in ChannelIdx |-> IF @[g] >= 0 THEN @[g] + ms ELSE @[g]]]

\* pulse() without the clamp of the duration to maxOnTimeMs
pulseDurationUnclamped(s, durationMs) == durationMs

pulseDuration(s, durationMs) ==
    IF s.config.maxOnTimeMs > 0 /\ durationMs > s.config.maxOnTimeMs
    THEN s.config.maxOnTimeMs ELSE durationMs

\* pulse() that returns after the delay with the channel still on
pulseLeavingOn(s, channel, durationMs) ==
    LET r == on(s, channel) IN
    IF r.ret # OK THEN r
    ELSE ReturnOK(advance(r, pulseDuration(s, durationMs)))

pulse(s, channel, durationMs) ==
    LET r == on(s, channel) IN
    IF r.ret # OK THEN r
    ELSE off(advance(r, pulseDuration(s, durationMs)), channel)

\* the loop of allOn that gives up at the first channel that is refused
RECURSIVE allOnLoopStopping(_, _, _, _)
allOnLoopStopping(s, ch, failedCount, firstError) ==
    IF ch >= s.channelCount
    THEN IF failedCount > 0 THEN Return(s, firstError) ELSE ReturnOK(s)
    ELSE LET r == on(s, ch) IN
         IF r.ret = OK THEN allOnLoopStopping(r, ch + 1, failedCount, firstError)
         ELSE r

\* for (ch = 0; ch < _channelCount; ch++) on(ch), from index ch on
RECURSIVE allOnLoop(_, _, _, _)
allOnLoop(s, ch, failedCount, firstError) ==
    IF ch >= s.channelCount
    THEN IF failedCount > 0 THEN Return(s, firstError) ELSE ReturnOK(s)
    ELSE LET r == on(s, ch) IN
         IF r.ret = OK THEN allOnLoop(r, ch + 1, failedCount, firstError)
         ELSE IF r.ret = I2C_COMMUNICATION THEN r
         ELSE allOnLoop(r, ch + 1, failedCount + 1,
                        IF firstError = OK THEN r.ret ELSE firstError)

allOn(s) ==
    IF ~s.initialized THEN ReturnLastError(reportError(s, NOT_INITIALIZED, GlobalChannel))
    ELSE allOnLoop(s, 0, 0, OK)

\* only the channels whose bit is set are updated
updateBoardChannelStatesSetOnly(s, board, states) ==
    LET base == board * SOLENOID_CHANNELS_PER_BOARD IN
    [s EXCEPT !.channels = [g \in ChannelIdx |->
                  IF g \div SOLENOID_CHANNELS_PER_BOARD = board /\ Bit(states, g - base) = 1
                  THEN updateState(@[g], TRUE, s.now) ELSE @[g]]]

\* _channels[board*8 + ch].updateState(bit ch of states) for ch = 0..7
updateBoardChannelStates(s, board, states) ==
    LET base == board * SOLENOID_CHANNELS_PER_BOARD IN
    [s EXCEPT !.channels = [g \in ChannelIdx |->
                  IF g \div SOLENOID_CHANNELS_PER_BOARD = board
                  THEN updateState(@[g], Bit(states, g - base) = 1, s.now) ELSE @[g]],
              !.sinceOff = [g \in ChannelIdx |->
                  IF g \div SOLENOID_CHANNELS_PER_BOARD = board
                     /\ s.channels[g].isOn /\ Bit(states, g - base) = 0
                  THEN 0 ELSE @[g]]]

RECURSIVE allOffLoop(_, _)
allOffLoop(s, board) ==
    IF board >= s.boardCount THEN ReturnOK(s)
    ELSE IF ~writeBoardOk(s, board)
    THEN ReturnLastError(reportError(s, I2C_COMMUNICATION, GlobalChannel))
    ELSE allOffLoop(updateBoardChannelStates(writeBoard(s, board, 0), board, 0), board + 1)

allOff(s) ==
    IF ~s.initialized THEN ReturnLastError(reportError(s, NOT_INITIALIZED, GlobalChannel))
    ELSE allOffLoop(s, 0)

\* the safety loop of setBoardChannels that notes a blocked channel and leaves
\* its bit in the mask
RECURSIVE safetyScanKeepingMask(_, _, _, _, _, _)
safetyScanKeepingMask(s, board, currentStates, states, blockedChannels, ch) ==
    IF ch >= SOLENOID_CHANNELS_PER_BOARD
    THEN [states |-> states, blockedChannels |-> blockedChannels, s |-> s]
    ELSE IF Bit(states, ch) = 1 /\ Bit(currentStates, ch) = 0
    THEN LET chk == isSafeToActivate(s, board * SOLENOID_CHANNELS_PER_BOARD + ch) IN
         IF ~chk.safe
         THEN safetyScanKeepingMask(chk.s, board, currentStates, states,
                                    SetBit(blockedChannels, ch), ch + 1)
         ELSE safetyScanKeepingMask(chk.s, board, currentStates, states,
                                    blockedChannels, ch + 1)
    ELSE safetyScanKeepingMask(s, board, currentStates, states, blockedChannels, ch + 1)

\* the safety loop of setBoardChannels over ch..7: [states, blockedChannels, s]
RECURSIVE safetyScan(_, _, _, _, _, _)
safetyScan(s, board, currentStates, states, blockedChannels, ch) ==
    IF ch >= SOLENOID_CHANNELS_PER_BOARD
    THEN [states |-> states, blockedChannels |-> blockedChannels, s |-> s]
    ELSE IF Bit(states, ch) = 1 /\ Bit(currentStates, ch) = 0
    THEN LET chk == isSafeToActivate(s, board * SOLENOID_CHANNELS_PER_BOARD + ch) IN
         IF ~chk.safe
         THEN safetyScan(chk.s, board, currentStates, ClearBit(states, ch),
                         SetBit(blockedChannels, ch), ch + 1)
         ELSE safetyScan(chk.s, board, currentStates, states, blockedChannels, ch + 1)
    ELSE safetyScan(s, board, currentStates, states, blockedChannels, ch + 1)

setBoardChannels(s, board, states) ==
    IF ~s.initialized THEN ReturnLastError(reportError(s, NOT_INITIALIZED, GlobalChannel))
    ELSE IF board >= s.boardCount
    THEN ReturnLastError(reportError(s, INVALID_BOARD, GlobalChannel))
    ELSE
    LET currentStates == s.boardStates[board]
        scan == IF s.config.safetyEnabled
                THEN safetyScan(s, board, currentStates, states, 0, 0)
                ELSE [states |-> states, blockedChannels |-> 0, s |-> s]
    IN IF ~writeBoardOk(scan.s, board)
       THEN ReturnLastError(reportError(scan.s, I2C_COMMUNICATION, GlobalChannel))
       ELSE LET w == updateBoardChannelStates(
                         writeBoard(scan.s, board, scan.states), board, scan.states)
            IN IF scan.blockedChannels # 0 THEN ReturnLastError(w) ELSE ReturnOK(w)

\* the loop of setAll over board..boardCount-1; states is the array, indexed
\* from 1
RECURSIVE setAllLoop(_, _, _, _)
setAllLoop(s, states, board, anyBlocked) ==
    IF board >= s.boardCount
    THEN IF anyBlocked THEN ReturnLastError(s) ELSE ReturnOK(s)
    ELSE LET r == setBoardChannels(s, board, states[board + 1]) IN
         IF r.ret = I2C_COMMUNICATION THEN r
         ELSE setAllLoop(r, states, board + 1, anyBlocked \/ r.ret # OK)

setAll(s, states) ==
    IF ~s.initialized THEN ReturnLastError(reportError(s, NOT_INITIALIZED, GlobalChannel))
    ELSE IF Len(states) < s.boardCount
    THEN ReturnLastError(reportError(s, INVALID_BOARD, GlobalChannel))
    ELSE setAllLoop(s, states, 0, FALSE)

\* the test update() applies to a channel that is on
timedOutUnlessSafetyOff(ch, cfg, millis) ==
    cfg.safetyEnabled /\ cfg.maxOnTimeMs > 0 /\ onDuration(ch, millis) >= cfg.maxOnTimeMs

timedOutStrictly(ch, cfg, millis) ==
    cfg.maxOnTimeMs > 0 /\ onDuration(ch, millis) > cfg.maxOnTimeMs

timedOut(ch, cfg, millis) ==
    cfg.maxOnTimeMs > 0 /\ onDuration(ch, millis) >= cfg.maxOnTimeMs

\* the sweep of update() over ch.._channelCount-1
RECURSIVE updateLoop(_, _)
updateLoop(s, ch) ==
    IF ch >= s.channelCount THEN s
    ELSE IF s.channels[ch].isOn /\ timedOut(s.channels[ch], s.config, s.now)
    THEN LET loc == globalToLocal(ch) IN
         updateLoop(reportError(
                        setChannelState(
                            writeChannel(s, loc.board, loc.localChannel, FALSE), ch, FALSE),
                        SAFETY_TIMEOUT, ch),
                    ch + 1)
    ELSE updateLoop(s, ch + 1)

update(s) ==
    IF ~s.initialized THEN Return(s, "void") ELSE Return(updateLoop(s, 0), "void")

RECURSIVE stopBoards(_, _)
stopBoards(s, board) ==
    IF board >= s.boardCount THEN s
    ELSE stopBoards([writeGPIOA(s, board, 0) EXCEPT !.boardStates[board] = 0], board + 1)

\* emergencyStop() that writes the ports and leaves the channel objects alone
emergencyStopUntracked(s) == Return(stopBoards(s, 0), "void")

emergencyStop(s) ==
    LET b == stopBoards(s, 0) IN
    Return([b EXCEPT !.channels = [g \in ChannelIdx |->
                         IF g < b.channelCount THEN updateState(@[g], FALSE, b.now) ELSE @[g]],
                     !.sinceOff = [g \in ChannelIdx |->
                         IF g < b.channelCount /\ b.channels[g].isOn THEN 0 ELSE @[g]]],
           "void")

\* SolenoidDriver::~SolenoidDriver()
destructor(s) == IF s.initialized THEN emergencyStop(s) ELSE Return(s, "void")

resetAllStats(s) ==
    Return([s EXCEPT !.channels = [g \in ChannelIdx |->
                         IF g < s.channelCount THEN resetStats(@[g]) ELSE @[g]]],
           "void")

\* setConfig that is ignored once begin() has succeeded
setConfigBeforeBeginOnly(s, cfg) ==
    IF s.initialized THEN Return(s, "void")
    ELSE Return([s EXCEPT !.config = cfg], "void")

setConfig(s, cfg) == Return([s EXCEPT !.config = cfg], "void")

getConfig(s) == s.config

\* the board loop of begin() without the write that turns the outputs off
RECURSIVE beginLoopWithoutClear(_, _, _, _)
beginLoopWithoutClear(s, addresses, i, failAt) ==
    IF i >= Len(addresses)
    THEN Return([s EXCEPT !.initialized = TRUE, !.lastError = OK], "true")
    ELSE IF i = failAt
    THEN Return(reportError(s, I2C_COMMUNICATION, GlobalChannel), "false")
    ELSE beginLoopWithoutClear(
              [s EXCEPT !.boardAddresses[i] = addresses[i + 1],
                        !.boardStates[i] = 0,
                        !.boardCount = @ + 1,
                        !.channels = [g \in ChannelIdx |->
                            IF g \div SOLENOID_CHANNELS_PER_BOARD = i
                            THEN SolenoidChannel(i, g % SOLENOID_CHANNELS_PER_BOARD, g)
                            ELSE @[g]],
                        !.sinceOff = [g \in ChannelIdx |->
                            IF g \div SOLENOID_CHANNELS_PER_BOARD = i THEN -1 ELSE @[g]],
                        !.channelCount = (s.boardCount + 1) * SOLENOID_CHANNELS_PER_BOARD],
              addresses, i + 1, failAt)

\* the board loop of begin() from board i on; begin_I2C fails at board failAt
RECURSIVE beginLoop(_, _, _, _)
beginLoop(s, addresses, i, failAt) ==
    IF i >= Len(addresses)
    THEN Return([s EXCEPT !.initialized = TRUE, !.lastError = OK], "true")
    ELSE IF i = failAt
    THEN Return(reportError(s, I2C_COMMUNICATION, GlobalChannel), "false")
    ELSE LET addr == addresses[i + 1]
             w == portWrite(s, addr, 0)
         IN beginLoop(
              [w EXCEPT !.boardAddresses[i] = addr,
                        !.boardStates[i] = 0,
                        !.boardCount = @ + 1,
                        !.channels = [g \in ChannelIdx |->
                            IF g \div SOLENOID_CHANNELS_PER_BOARD = i
                            THEN SolenoidChannel(i, g % SOLENOID_CHANNELS_PER_BOARD, g)
                            ELSE @[g]],
                        !.sinceOff = [g \in ChannelIdx |->
                            IF g \div SOLENOID_CHANNELS_PER_BOARD = i THEN -1 ELSE @[g]],
                        !.channelCount = (w.boardCount + 1) * SOLENOID_CHANNELS_PER_BOARD],
              addresses, i + 1, failAt)

begin(s, addresses, failAt) ==
    IF Len(addresses) = 0 \/ Len(addresses) > SOLENOID_MAX_BOARDS_PER_BUS
    THEN Return(reportError(s, INVALID_BOARD, GlobalChannel), "false")
    ELSE IF \E i \in 1 .. Len(addresses) :
              addresses[i] < MCP23017_BASE_ADDRESS \/ addresses[i] > MCP23017_MAX_ADDRESS
    THEN Return(reportError(s, INVALID_BOARD, GlobalChannel), "false")
    ELSE beginLoop([s EXCEPT !.boardCount = 0, !.channelCount = 0, !.initialized = FALSE],
                   addresses, 0, failAt)

\* state queries
nullptr == [null |-> TRUE]
getChannelState(s, channel) ==
    IF channel >= s.channelCount THEN nullptr ELSE s.channels[channel]
isInitialized(s) == s.initialized
getLastError(s) == s.lastError
getBoardCount(s) == s.boardCount
getChannelCount(s) == s.channelCount
isOn(s, channel) == IF channel >= s.channelCount THEN FALSE ELSE s.channels[channel].isOn
getBoardState(s, board) == IF board >= s.boardCount THEN 0 ELSE s.boardStates[board]
getBoardAddress(s, board) == IF board >= s.boardCount THEN 0 ELSE s.boardAddresses[board]

\* ---------------------------------------------------------------------------
\* Inputs of the calls
\* ---------------------------------------------------------------------------
SmallConfig ==
    [SolenoidConfig EXCEPT !.maxOnTimeMs = 2, !.minOffTimeMs = 1,
                           !.dutyCycleWindowMs = 3]
MidiConfig ==
    [SolenoidConfig EXCEPT !.maxOnTimeMs = 2000, !.minOffTimeMs = 15,
                           !.maxDutyCycle = Ratio(3, 4)]
ConfigInputs ==
    { SolenoidConfig,
      MidiConfig,
      SmallConfig,
      [SmallConfig EXCEPT !.maxDutyCycle = One],
      [SmallConfig EXCEPT !.safetyEnabled = FALSE] }

ChannelInputs == {0, 9, 16}
BoardInputs == {1, 2}
MaskInputs == {0, 2}
TickInputs == {1}
PulseInputs == {1, 4}

\* ---------------------------------------------------------------------------
\* State
\* ---------------------------------------------------------------------------
VARIABLES
    now,             \* millis()
    initialized,     \* _initialized
    boardCount,      \* _boardCount
    channelCount,    \* _channelCount
    config,          \* _config
    lastError,       \* _lastError
    boardAddresses,  \* _boardAddresses[]
    boardStates,     \* _boardStates[]: the cached output masks
    channels,        \* _channels[]
    hw,              \* GPIOA output latch of the chip at each bus address
    reported,        \* reportError(error, channel) calls of the last operation
    ret,             \* value returned by the last operation
    op,              \* the last operation and its arguments
    highFor,         \* per chip and pin: time the output has been high without a break
    sinceOff,        \* per channel: time since it was last switched off, -1 if never
    elapsed,         \* time passed since the start of the behaviour
    caller,          \* control loop: time and calls since the last update(), calls in all;
                     \* SpecFirmware: the globals and position of the test firmware
    hist             \* SpecScenario, SpecDuty: the calls made so far, with time and result

vars == <<now, initialized, boardCount, channelCount, config, lastError,
          boardAddresses, boardStates, channels, hw, reported, ret, op,
          highFor, sinceOff, elapsed, caller, hist>>

\* the record the operations work on, at the entry of a public call
S == [ now |-> now, initialized |-> initialized, boardCount |-> boardCount,
       channelCount |-> channelCount, config |-> config, lastError |-> lastError,
       boardAddresses |-> boardAddresses, boardStates |-> boardStates,
       channels |-> channels, hw |-> hw, reported |-> <<>>, ret |-> "void",
       highFor |-> highFor, sinceOff |-> sinceOff, elapsed |-> elapsed,
       bus |-> <<>> ]

Op(name, a, b) == [name |-> name, a |-> a, b |-> b]

NoCall == Op("none", 0, 0)

\* the caller, holding no result of an earlier call, makes the call `o`, which
\* runs to its end and leaves the record `call`; no channel is activated more
\* than `limit` times
CommitWithin(call, o, limit) ==
    /\ op = NoCall
    /\ \E r \in {call} :
          /\ \A g \in ChannelIdx : r.channels[g].activationCount <= limit
          /\ now' = r.now
          /\ initialized' = r.initialized
          /\ boardCount' = r.boardCount
          /\ channelCount' = r.channelCount
          /\ config' = r.config
          /\ lastError' = r.lastError
          /\ boardAddresses' = r.boardAddresses
          /\ boardStates' = r.boardStates
          /\ channels' = r.channels
          /\ hw' = r.hw
          /\ reported' = r.reported
          /\ ret' = r.ret
          /\ op' = o
          /\ highFor' = r.highFor
          /\ sinceOff' = r.sinceOff
          /\ elapsed' = r.elapsed

Commit(call, o) == CommitWithin(call, o, MaxActivations)

\* SolenoidDriver::SolenoidDriver() with the configuration cfg installed, the
\* millisecond clock reading t
StartTimes == {UINT32_MAX}

Constructed(t, cfg) ==
    [ now            |-> t,
      initialized    |-> FALSE,
      boardCount     |-> 0,
      channelCount   |-> 0,
      config         |-> cfg,
      lastError      |-> OK,
      boardAddresses |-> [b \in BoardIdx |-> 0],
      boardStates    |-> [b \in BoardIdx |-> 0],
      channels       |-> [g \in ChannelIdx |-> SolenoidChannel(0, 0, 0)],
      hw             |-> [a \in ChipAddrs |-> 0],
      reported       |-> <<>>,
      ret            |-> "void",
      highFor        |-> [a \in ChipAddrs |-> [p \in PinIdx |-> 0]],
      sinceOff       |-> [g \in ChannelIdx |-> -1],
      elapsed        |-> 0,
      bus            |-> <<>> ]

\* the driver, the clock and the ports are as in r, no call is outstanding
Holds(r) ==
    /\ now = r.now
    /\ initialized = r.initialized
    /\ boardCount = r.boardCount
    /\ channelCount = r.channelCount
    /\ config = r.config
    /\ lastError = r.lastError
    /\ boardAddresses = r.boardAddresses
    /\ boardStates = r.boardStates
    /\ channels = r.channels
    /\ hw = r.hw
    /\ reported = <<>>
    /\ ret = "void"
    /\ op = NoCall
    /\ highFor = r.highFor
    /\ sinceOff = r.sinceOff
    /\ elapsed = r.elapsed

Init ==
    /\ \E t \in StartTimes : \E cfg \in ConfigInputs : Holds(Constructed(t, cfg))
    /\ caller = [sinceUpdate |-> 0, calls |-> 0, total |-> 0]
    /\ hist = <<>>

\* ---------------------------------------------------------------------------
\* Actions: one per public operation, plus the passage of time
\* ---------------------------------------------------------------------------
Begin ==
    \E addresses \in BeginInputs : \E failAt \in 0 .. Len(addresses) :
        Commit(begin(S, addresses, failAt), Op("begin", Len(addresses), failAt))

SetConfig ==
    \E cfg \in ConfigInputs : Commit(setConfig(S, cfg), Op("setConfig", 0, 0))

On == \E c \in ChannelInputs : Commit(on(S, c), Op("on", c, 0))

Off == \E c \in ChannelInputs : Commit(off(S, c), Op("off", c, 0))

Toggle == \E c \in ChannelInputs : Commit(toggle(S, c), Op("toggle", c, 0))

Set ==
    \E c \in ChannelInputs : \E state \in BOOLEAN :
        Commit(set(S, c, state), Op("set", c, IF state THEN 1 ELSE 0))

\* pulse() returns before the behaviour is `limit` ms old
Pulse(limit) ==
    \E c \in ChannelInputs : \E d \in PulseInputs :
        \E r \in {pulse(S, c, d)} :
            /\ r.elapsed <= limit
            /\ Commit(r, Op("pulse", c, d))

AllOn == Commit(allOn(S), Op("allOn", 0, 0))

AllOff == Commit(allOff(S), Op("allOff", 0, 0))

SetBoardChannels ==
    \E b \in BoardInputs : \E m \in MaskInputs :
        Commit(setBoardChannels(S, b, m), Op("setBoardChannels", b, m))

SetAll ==
    \E m0 \in MaskInputs : \E m1 \in MaskInputs :
        Commit(setAll(S, <<m0, m1>>), Op("setAll", m0, m1))

Update == Commit(update(S), Op("update", 0, 0))

EmergencyStop == Commit(emergencyStop(S), Op("emergencyStop", 0, 0))

\* the driver object is destroyed; no call follows
Destroyed == Op("~SolenoidDriver", 0, 0)

Destroy == Commit(destructor(S), Destroyed)

ResetAllStats == Commit(resetAllStats(S), Op("resetAllStats", 0, 0))

\* d ms pass with no call running
Pass(d) == Commit(Return(advance(S, d), "void"), NoCall)

Tick ==
    \E d \in TickInputs :
        /\ elapsed + d <= MaxTime
        /\ Pass(d)

\* the caller has looked at the result of the call and goes on
Resume ==
    /\ op # NoCall
    /\ op' = NoCall
    /\ ret' = "void"
    /\ reported' = <<>>
    /\ UNCHANGED <<now, initialized, boardCount, channelCount, config, lastError,
                   boardAddresses, boardStates, channels, hw, highFor, sinceOff, elapsed>>

Idle == UNCHANGED <<caller, hist>>

Next ==
    \/ Begin /\ Idle
    \/ On /\ Idle
    \/ Off /\ Idle
    \/ AllOff /\ Idle
    \/ Update /\ Idle
    \/ EmergencyStop /\ Idle
    \/ Tick /\ Idle
    \/ Resume /\ Idle

Spec == Init /\ [][Next]_vars

\* ---------------------------------------------------------------------------
\* The driver under a control loop: the caller makes at most one control call
\* between two update() calls and lets at most LoopPeriod ms pass between two
\* update() calls, the time it is blocked inside pulse() not counted.
\* ---------------------------------------------------------------------------
LoopConfigs ==
    { SmallConfig,
      [SmallConfig EXCEPT !.safetyEnabled = FALSE] }

LoopStartTimes == {UINT32_MAX - 1}

LoopBoards == <<MCP23017_BASE_ADDRESS, MCP23017_BASE_ADDRESS + 1>>

LoopInit ==
    /\ \E t \in LoopStartTimes : \E cfg \in LoopConfigs :
           Holds(begin(Constructed(t, cfg), LoopBoards, Len(LoopBoards)))
    /\ caller = [sinceUpdate |-> 0, calls |-> 0, total |-> 0]
    /\ hist = <<>>

\* the one control call of this round of the loop
Called ==
    /\ caller.calls = 0
    /\ caller.total < LoopCalls
    /\ caller' = [caller EXCEPT !.calls = 1, !.total = @ + 1]
    /\ UNCHANGED hist

LoopUpdate ==
    /\ Update
    /\ caller' = [caller EXCEPT !.sinceUpdate = 0, !.calls = 0]
    /\ UNCHANGED hist

LoopTick ==
    \E d \in TickInputs :
        /\ elapsed + d <= LoopTime
        /\ caller.sinceUpdate + d <= LoopPeriod
        /\ Pass(d)
        /\ caller' = [caller EXCEPT !.sinceUpdate = @ + d]
        /\ UNCHANGED hist

LoopNext ==
    \/ Called /\ On
    \/ Called /\ Off
    \/ Called /\ Set
    \/ Called /\ Toggle
    \/ Called /\ Pulse(LoopTime)
    \/ Called /\ AllOn
    \/ Called /\ SetAll
    \/ Called /\ SetBoardChannels
    \/ LoopUpdate
    \/ LoopTick
    \/ Resume /\ Idle

SpecLoop == LoopInit /\ [][LoopNext]_vars

\* ---------------------------------------------------------------------------
\* The end-to-end scenario: one board, maxOnTimeMs 2000, minOffTimeMs 15, the
\* other fields at their defaults; on() and off() calls at the times of the
\* scenario, no update().
\* ---------------------------------------------------------------------------
ScenarioConfig ==
    [SolenoidConfig EXCEPT !.maxOnTimeMs = 2000, !.minOffTimeMs = 15]

\* times of the calls, counted from the start of the scenario
ScenarioTimes == <<0, 2500, 2510, 2516>>

\* the clock reading at the start of the scenario
ScenarioStartTimes == {0, 1000}

ScenarioInit ==
    /\ \E t \in ScenarioStartTimes :
           Holds(begin(Constructed(t, ScenarioConfig), <<MCP23017_BASE_ADDRESS>>, 1))
    /\ caller = [sinceUpdate |-> 0, calls |-> 0, total |-> 0]
    /\ hist = <<>>

\* the call is added to the record of the calls made
Logged ==
    /\ Len(hist) < MaxCalls
    /\ hist' = Append(hist, [name |-> op'.name, a |-> op'.a, t |-> elapsed, ret |-> ret'])
    /\ UNCHANGED caller

\* the time up to the next call of the scenario passes
ScenarioTick ==
    \E i \in 1 .. (Len(ScenarioTimes) - 1) :
        /\ elapsed = ScenarioTimes[i]
        /\ Pass(ScenarioTimes[i + 1] - ScenarioTimes[i])
        /\ Idle

ScenarioNext ==
    \/ On /\ Logged
    \/ Off /\ Logged
    \/ ScenarioTick
    \/ Resume /\ Idle

SpecScenario == ScenarioInit /\ [][ScenarioNext]_vars

\* ---------------------------------------------------------------------------
\* The life of a driver object: construction, begin() with any argument, use,
\* destruction
\* ---------------------------------------------------------------------------
\* the address arrays begin() is called with: two that are accepted, an empty
\* one, two with an address outside 0x20..0x27, one with nine addresses
LifeBeginInputs ==
    << <<MCP23017_BASE_ADDRESS>>,
       <<MCP23017_BASE_ADDRESS, MCP23017_BASE_ADDRESS + 1>>,
       << >>,
       <<MCP23017_BASE_ADDRESS - 1>>,
       <<MCP23017_BASE_ADDRESS, MCP23017_MAX_ADDRESS + 1>>,
       [i \in 1 .. SOLENOID_MAX_BOARDS_PER_BUS + 1 |-> MCP23017_BASE_ADDRESS] >>

LifeConfigs == {SmallConfig}

LifeInit ==
    /\ \E t \in StartTimes : \E cfg \in LifeConfigs : Holds(Constructed(t, cfg))
    /\ caller = [sinceUpdate |-> 0, calls |-> 0, total |-> 0]
    /\ hist = <<>>

\* begin() with the i-th array; begin_I2C fails at board failAt, at none if
\* failAt is the length of the array
LifeBegin ==
    \E i \in 1 .. Len(LifeBeginInputs) : \E failAt \in 0 .. Len(LifeBeginInputs[i]) :
        Commit(begin(S, LifeBeginInputs[i], failAt), Op("begin", i, failAt))

LifeResume == op # Destroyed /\ Resume

LifeNext ==
    \/ LifeBegin /\ Idle
    \/ On /\ Idle
    \/ Off /\ Idle
    \/ Destroy /\ Idle
    \/ Tick /\ Idle
    \/ LifeResume /\ Idle

SpecLife == LifeInit /\ [][LifeNext]_vars

\* ---------------------------------------------------------------------------
\* Activations of one channel under the duty-cycle limit: maxDutyCycle 0.5,
\* window 1000 ms, no cooldown; every activation lasts DutyPulseMs
\* ---------------------------------------------------------------------------
DutyConfig ==
    [SolenoidConfig EXCEPT !.minOffTimeMs = 0, !.maxDutyCycle = Ratio(1, 2),
                           !.dutyCycleWindowMs = 1000]

DutyPulseMs == 150

\* the clock advances in steps of 50 ms
DutyTickInputs == {50}

DutyStartTimes == {UINT32_MAX - 499}

DutyInit ==
    /\ \E t \in DutyStartTimes :
           Holds(begin(Constructed(t, DutyConfig), <<MCP23017_BASE_ADDRESS>>, 1))
    /\ caller = [sinceUpdate |-> 0, calls |-> 0, total |-> 0]
    /\ hist = <<>>

DutyLogged ==
    /\ Len(hist) < DutyCalls
    /\ hist' = Append(hist, [name |-> op'.name, a |-> op'.a, t |-> elapsed, ret |-> ret'])
    /\ UNCHANGED caller

\* on(0) while the channel is off
DutyOn ==
    /\ ~channels[0].isOn
    /\ CommitWithin(on(S, 0), Op("on", 0, 0), DutyCalls)
    /\ DutyLogged

\* off(0) when the channel has been on for DutyPulseMs
DutyOff ==
    /\ channels[0].isOn
    /\ onDuration(channels[0], now) = DutyPulseMs
    /\ CommitWithin(off(S, 0), Op("off", 0, 0), DutyCalls)
    /\ DutyLogged

DutyTick ==
    \E d \in DutyTickInputs :
        /\ elapsed + d <= DutyTime
        /\ channels[0].isOn => onDuration(channels[0], now) < DutyPulseMs
        /\ CommitWithin(Return(advance(S, d), "void"), NoCall, DutyCalls)
        /\ Idle

DutyNext ==
    \/ DutyOn
    \/ DutyOff
    \/ DutyTick
    \/ Resume /\ Idle

SpecDuty == DutyInit /\ [][DutyNext]_vars

\* ---------------------------------------------------------------------------
\* Whole-port and whole-driver operations on two boards
\* ---------------------------------------------------------------------------
BulkBoards == {0, 1}

BulkMasks == {0, 1, 3}

\* duty-cycle limit and cooldown, cooldown alone, no safety checks
BulkConfigs ==
    { SmallConfig,
      [SmallConfig EXCEPT !.maxDutyCycle = One],
      [SmallConfig EXCEPT !.safetyEnabled = FALSE] }

BulkInit ==
    /\ \E t \in StartTimes : \E cfg \in BulkConfigs :
           Holds(begin(Constructed(t, cfg), LoopBoards, Len(LoopBoards)))
    /\ caller = [sinceUpdate |-> 0, calls |-> 0, total |-> 0]
    /\ hist = <<>>

\* one more call is made
BulkCalled ==
    /\ caller.total < BulkCalls
    /\ caller' = [caller EXCEPT !.total = @ + 1]
    /\ UNCHANGED hist

BulkSetBoardChannels ==
    \E b \in BulkBoards : \E m \in BulkMasks :
        Commit(setBoardChannels(S, b, m), Op("setBoardChannels", b, m))

BulkSetAll ==
    \E m0 \in BulkMasks : \E m1 \in {0, 1} :
        Commit(setAll(S, <<m0, m1>>), Op("setAll", m0, m1))

BulkNext ==
    \/ BulkCalled /\ BulkSetBoardChannels
    \/ BulkCalled /\ BulkSetAll
    \/ BulkCalled /\ AllOn
    \/ Tick /\ Idle
    \/ Resume /\ Idle

SpecBulk == BulkInit /\ [][BulkNext]_vars

\* ---------------------------------------------------------------------------
\* SpecTune: the configuration is changed while the driver is in use, before
\* and after begin(); hist holds the setConfig calls made so far
\* ---------------------------------------------------------------------------
\* cooldown alone; a shorter time limit; a longer cooldown; no safety checks;
\* no time limit
TuneConfigs ==
    << [SmallConfig EXCEPT !.maxDutyCycle = One],
       [SmallConfig EXCEPT !.maxDutyCycle = One, !.maxOnTimeMs = 1],
       [SmallConfig EXCEPT !.maxDutyCycle = One, !.minOffTimeMs = 2],
       [SmallConfig EXCEPT !.safetyEnabled = FALSE],
       [SmallConfig EXCEPT !.maxOnTimeMs = 0, !.maxDutyCycle = One] >>

TuneInit ==
    /\ \E t \in StartTimes : Holds(Constructed(t, TuneConfigs[1]))
    /\ caller = [sinceUpdate |-> 0, calls |-> 0, total |-> 0]
    /\ hist = <<>>

TuneBegin ==
    /\ ~initialized
    /\ Commit(begin(S, <<MCP23017_BASE_ADDRESS>>, 1), Op("begin", 1, 1))

\* setConfig() with the i-th configuration
TuneSetConfig ==
    \E i \in 1 .. Len(TuneConfigs) :
        /\ Len(hist) < TuneCalls
        /\ Commit(setConfig(S, TuneConfigs[i]), Op("setConfig", i, 0))
        /\ hist' = Append(hist, [name |-> "setConfig", a |-> i, t |-> elapsed, ret |-> "void"])
        /\ UNCHANGED caller

\* setBoardChannels() of the one board, for channel 0
TuneSetBoardChannels ==
    \E m \in {0, 1} : Commit(setBoardChannels(S, 0, m), Op("setBoardChannels", 0, m))

TuneNext ==
    \/ TuneBegin /\ Idle
    \/ TuneSetConfig
    \/ On /\ Idle
    \/ Off /\ Idle
    \/ Pulse(MaxTime) /\ Idle
    \/ TuneSetBoardChannels /\ Idle
    \/ Update /\ Idle
    \/ Tick /\ Idle
    \/ Resume /\ Idle

SpecTune == TuneInit /\ [][TuneNext]_vars

\* ---------------------------------------------------------------------------
\* SpecStats: the statistics are reset while the driver is in use; hist holds
\* the calls made so far
\* ---------------------------------------------------------------------------
\* duty-cycle limit and cooldown, cooldown alone
StatsConfigs == {SmallConfig, [SmallConfig EXCEPT !.maxDutyCycle = One]}

StatsInit ==
    /\ \E t \in StartTimes : \E cfg \in StatsConfigs :
           Holds(begin(Constructed(t, cfg), <<MCP23017_BASE_ADDRESS>>, 1))
    /\ caller = [sinceUpdate |-> 0, calls |-> 0, total |-> 0]
    /\ hist = <<>>

StatsNext ==
    \/ On /\ Logged
    \/ Off /\ Logged
    \/ EmergencyStop /\ Logged
    \/ ResetAllStats /\ Logged
    \/ Tick /\ Idle
    \/ Resume /\ Idle

SpecStats == StatsInit /\ [][StatsNext]_vars

\* ---------------------------------------------------------------------------
\* SpecOrder: one channel is switched on and off at all times up to OrderTime
\* under a cooldown and a duty-cycle limit
\* ---------------------------------------------------------------------------
\* cooldown and duty-cycle limit; neither; cooldown alone
OrderConfigs ==
    { [SmallConfig EXCEPT !.dutyCycleWindowMs = 6],
      [SmallConfig EXCEPT !.minOffTimeMs = 0, !.maxDutyCycle = One],
      [SmallConfig EXCEPT !.maxDutyCycle = One] }

OrderInit ==
    /\ \E t \in StartTimes : \E cfg \in OrderConfigs :
           Holds(begin(Constructed(t, cfg), <<MCP23017_BASE_ADDRESS>>, 1))
    /\ caller = [sinceUpdate |-> 0, calls |-> 0, total |-> 0]
    /\ hist = <<>>

OrderTick ==
    \E d \in TickInputs :
        /\ elapsed + d <= OrderTime
        /\ Pass(d)

OrderNext ==
    \/ On /\ Idle
    \/ Off /\ Idle
    \/ OrderTick /\ Idle
    \/ Resume /\ Idle

SpecOrder == OrderInit /\ [][OrderNext]_vars

\* ---------------------------------------------------------------------------
\* SpecEstimate: activations under a duty-cycle limit of 1/2 for cooldown
\* times below, at and above the 100 ms fallback of the projection
\* ---------------------------------------------------------------------------
EstimateInputs == {0, 15, 50, 100, 150}

EstimateConfigs ==
    { [SolenoidConfig EXCEPT !.minOffTimeMs = m, !.dutyCycleWindowMs = 1000] :
          m \in EstimateInputs }

EstimateInit ==
    /\ \E t \in DutyStartTimes : \E cfg \in EstimateConfigs :
           Holds(begin(Constructed(t, cfg), <<MCP23017_BASE_ADDRESS>>, 1))
    /\ caller = [sinceUpdate |-> 0, calls |-> 0, total |-> 0]
    /\ hist = <<>>

EstimateTick ==
    \E d \in DutyTickInputs :
        /\ elapsed + d <= EstimateTime
        /\ Pass(d)

EstimateNext ==
    \/ On /\ Idle
    \/ Off /\ Idle
    \/ EstimateTick /\ Idle
    \/ Resume /\ Idle

SpecEstimate == EstimateInit /\ [][EstimateNext]_vars

\* ---------------------------------------------------------------------------
\* SpecFirmware: the test firmware (src/main.cpp) in its main loop.  It drives
\* the chip at the default address directly; `caller` holds its globals, the
\* bytes waiting in the serial receive buffer and the position of the program:
\* "loop" at the top of loop(), "element" before and "delay" inside the step-th
\* element of playSOS(), "played" after the return of playSOS().
\* ---------------------------------------------------------------------------
SOS_CHANNEL == 0
SOS_DIT_MS == 100
SOS_DAH_MS == 300
SOS_ELEMENT_GAP_MS == 100
SOS_LETTER_GAP_MS == 300
SOS_WORD_GAP_MS == 700
LoopDelayMs == 1

\* the longest behaviour, in ms, and the most bytes held in the receive buffer
FirmwareTime == 3300
MaxSerial == 1

\* the commands sent: continuous mode, emergency stop, help
SerialInputs == {"c", "x", "h"}

\* mcp.digitalWrite(pin, level)
mcpDigitalWrite(s, pin, high) ==
    portWrite(s, MCP23017_BASE_ADDRESS,
              IF high THEN SetBit(s.hw[MCP23017_BASE_ADDRESS], pin)
              ELSE ClearBit(s.hw[MCP23017_BASE_ADDRESS], pin))

\* the elements of the sequence: the channel is high for ms, or a pause of ms
playDit == [on |-> TRUE, ms |-> SOS_DIT_MS]
playDah == [on |-> TRUE, ms |-> SOS_DAH_MS]
ElementGap == [on |-> FALSE, ms |-> SOS_ELEMENT_GAP_MS]
LetterGap == [on |-> FALSE, ms |-> SOS_LETTER_GAP_MS - SOS_ELEMENT_GAP_MS]
playS == <<playDit, ElementGap, playDit, ElementGap, playDit>>
playO == <<playDah, ElementGap, playDah, ElementGap, playDah>>
playSOS == playS \o <<LetterGap>> \o playO \o <<LetterGap>> \o playS

stopSOS(x) ==
    [ s |-> IF x.f.mcpInitialized THEN mcpDigitalWrite(x.s, SOS_CHANNEL, FALSE) ELSE x.s,
      f |-> [x.f EXCEPT !.sosRunning = FALSE, !.led = FALSE] ]

deactivateAllChannels(x) ==
    [ s |-> IF x.f.mcpInitialized THEN portWrite(x.s, MCP23017_BASE_ADDRESS, 0) ELSE x.s,
      f |-> [x.f EXCEPT !.channelStates = 0] ]

\* one command is read, the rest of the receive buffer is thrown away
handleSerialInput(s, f) ==
    IF f.serial = <<>> THEN [s |-> s, f |-> f]
    ELSE LET cmd == Head(f.serial)
             x   == [s |-> s, f |-> [f EXCEPT !.serial = <<>>]]
         IN CASE cmd = "c" -> IF f.sosRunning THEN stopSOS(x)
                              ELSE [x EXCEPT !.f.sosRunning = TRUE]
              [] cmd = "x" -> deactivateAllChannels(stopSOS(x))
              [] OTHER     -> x

\* after setup(): no channel on, continuous mode off
FirmwareInit ==
    /\ \E t \in StartTimes : Holds(Constructed(t, SmallConfig))
    /\ \E ok \in BOOLEAN :
          caller = [ sosRunning |-> FALSE, mcpInitialized |-> ok, channelStates |-> 0,
                     led |-> FALSE, serial |-> <<>>, pc |-> "loop", step |-> 0 ]
    /\ hist = <<>>

FirmwareCommit(x) ==
    /\ x.s.elapsed <= FirmwareTime
    /\ Commit(Return(x.s, "void"), NoCall)
    /\ caller' = x.f
    /\ UNCHANGED hist

\* one pass of loop() up to the call of playSOS(), or to its end if continuous
\* mode is off; channelStates is 0 throughout, so the timeout check of the
\* loop finds no channel
FirmwareLoop ==
    /\ caller.pc = "loop"
    /\ \E x \in {handleSerialInput(S, caller)} :
          IF x.f.sosRunning /\ x.f.mcpInitialized
          THEN FirmwareCommit([ s |-> mcpDigitalWrite(x.s, SOS_CHANNEL, FALSE),
                                f |-> [x.f EXCEPT !.pc = "element", !.step = 1] ])
          ELSE FirmwareCommit([ s |-> advance(x.s, LoopDelayMs), f |-> x.f ])

\* playSOS() before an element: it returns if sosRunning is false, otherwise a
\* dit or dah switches the channel on
FirmwareElement ==
    /\ caller.pc = "element"
    /\ IF ~caller.sosRunning
       THEN FirmwareCommit([ s |-> mcpDigitalWrite(S, SOS_CHANNEL, FALSE),
                             f |-> [caller EXCEPT !.pc = "played"] ])
       ELSE IF playSOS[caller.step].on
       THEN FirmwareCommit([ s |-> mcpDigitalWrite(S, SOS_CHANNEL, TRUE),
                             f |-> [caller EXCEPT !.pc = "delay", !.led = TRUE] ])
       ELSE FirmwareCommit([ s |-> S, f |-> [caller EXCEPT !.pc = "delay"] ])

\* the delay() of the element runs to its end; a dit or dah switches the
\* channel off; after the last element playSOS() returns
FirmwareDelay ==
    /\ caller.pc = "delay"
    /\ \E e \in {playSOS[caller.step]} :
       \E s \in {IF e.on THEN mcpDigitalWrite(advance(S, e.ms), SOS_CHANNEL, FALSE)
                  ELSE advance(S, e.ms)} :
          IF caller.step = Len(playSOS)
          THEN FirmwareCommit([ s |-> mcpDigitalWrite(s, SOS_CHANNEL, FALSE),
                                f |-> [caller EXCEPT !.pc = "played", !.led = FALSE] ])
          ELSE FirmwareCommit([ s |-> s,
                                f |-> [caller EXCEPT !.pc = "element", !.step = @ + 1,
                                                     !.led = IF e.on THEN FALSE ELSE @] ])

\* loop() after playSOS(): the word gap if continuous mode is still on, then
\* the delay of the loop
FirmwareWordGap ==
    /\ caller.pc = "played"
    /\ FirmwareCommit([ s |-> advance(S, (IF caller.sosRunning THEN SOS_WORD_GAP_MS ELSE 0)
                                         + LoopDelayMs),
                        f |-> [caller EXCEPT !.pc = "loop", !.step = 0] ])

\* a byte arrives on the serial line
FirmwareReceive ==
    /\ Len(caller.serial) < MaxSerial
    /\ \E c \in SerialInputs :
          FirmwareCommit([ s |-> S, f |-> [caller EXCEPT !.serial = Append(@, c)] ])

FirmwareNext ==
    \/ FirmwareLoop
    \/ FirmwareElement
    \/ FirmwareDelay
    \/ FirmwareWordGap
    \/ FirmwareReceive

SpecFirmware == FirmwareInit /\ [][FirmwareNext]_vars

\* ---------------------------------------------------------------------------
\* SpecWindow: one board is switched on and off and its statistics are reset,
\* at all times up to OrderTime, with and without a duty-cycle limit
\* ---------------------------------------------------------------------------
WindowConfigs ==
    { [SmallConfig EXCEPT !.minOffTimeMs = 0, !.dutyCycleWindowMs = 6],
      [SmallConfig EXCEPT !.minOffTimeMs = 0, !.dutyCycleWindowMs = 6,
                          !.maxDutyCycle = One] }

WindowInit ==
    /\ \E t \in StartTimes : \E cfg \in WindowConfigs :
           Holds(begin(Constructed(t, cfg), <<MCP23017_BASE_ADDRESS>>, 1))
    /\ caller = [sinceUpdate |-> 0, calls |-> 0, total |-> 0]
    /\ hist = <<>>

WindowNext ==
    \/ On /\ Idle
    \/ Off /\ Idle
    \/ ResetAllStats /\ Idle
    \/ OrderTick /\ Idle
    \/ Resume /\ Idle

SpecWindow == WindowInit /\ [][WindowNext]_vars

\* ---------------------------------------------------------------------------
\* A driver on which no begin() has succeeded: begin() not called, rejected, or
\* failed at some board
\* ---------------------------------------------------------------------------
ColdInit ==
    /\ \E t \in StartTimes : \E cfg \in LifeConfigs : Holds(Constructed(t, cfg))
    /\ caller = [sinceUpdate |-> 0, calls |-> 0, total |-> 0]
    /\ hist = <<>>

\* a begin() that returns false
ColdBegin ==
    \E i \in 1 .. Len(LifeBeginInputs) : \E failAt \in 0 .. Len(LifeBeginInputs[i]) :
        \E r \in {begin(S, LifeBeginInputs[i], failAt)} :
            /\ r.ret = "false"
            /\ Commit(r, Op("begin", i, failAt))

ColdNext ==
    \/ ColdBegin /\ Idle
    \/ On /\ Idle
    \/ Off /\ Idle
    \/ Set /\ Idle
    \/ Toggle /\ Idle
    \/ Pulse(MaxTime) /\ Idle
    \/ AllOn /\ Idle
    \/ AllOff /\ Idle
    \/ SetAll /\ Idle
    \/ SetBoardChannels /\ Idle
    \/ Update /\ Idle
    \/ Tick /\ Idle
    \/ Resume /\ Idle

SpecCold == ColdInit /\ [][ColdNext]_vars

\* ---------------------------------------------------------------------------
\* Properties
\* ---------------------------------------------------------------------------
Reports(log, error, channel) ==
    Cardinality({ i \in 1 .. Len(log) : log[i] = <<error, channel>> })

BoardOf(g) == g \div SOLENOID_CHANNELS_PER_BOARD
PinOf(g) == g % SOLENOID_CHANNELS_PER_BOARD
MaskBit(masks, g) == Bit(masks[BoardOf(g)], PinOf(g))
OutputBit(ports, addrs, g) == Bit(ports[addrs[BoardOf(g)]], PinOf(g))
ValidChannels == { g \in ChannelIdx : g < channelCount }

\* the channel has been on for maxOnTimeMs or longer
Due(g) ==
    channels[g].isOn /\ Sub32(now, channels[g].lastOnTime) >= config.maxOnTimeMs

\* C1: with the driver initialised and maxOnTimeMs > 0, an update() call turns
\* off every channel that has been on for maxOnTimeMs or longer (state, mask bit
\* and output), reporting SAFETY_TIMEOUT for it exactly once; every other
\* channel keeps its state, mask bit and output and is not reported, so a
\* channel that was swept is not reported again while it stays off.
C1_SweepTimesOutOnce ==
    [][ (op'.name = "update" /\ initialized /\ config.maxOnTimeMs > 0) =>
          \A g \in ValidChannels :
              IF Due(g)
              THEN /\ ~channels'[g].isOn
                   /\ MaskBit(boardStates', g) = 0
                   /\ OutputBit(hw', boardAddresses', g) = 0
                   /\ Reports(reported', SAFETY_TIMEOUT, g) = 1
              ELSE /\ channels'[g] = channels[g]
                   /\ MaskBit(boardStates', g) = MaskBit(boardStates, g)
                   /\ OutputBit(hw', boardAddresses', g) = OutputBit(hw, boardAddresses, g)
                   /\ Reports(reported', SAFETY_TIMEOUT, g) = 0 ]_vars

\* update() has swept channel 0 and left channel 9 on
C1_Witness ==
    /\ op.name = "update"
    /\ Reports(reported, SAFETY_TIMEOUT, 0) = 1
    /\ ~channels[0].isOn
    /\ channels[9].isOn

C3_EnergisedWithinOnePeriod ==
    \A a \in ChipAddrs : \A p \in PinIdx :
        highFor[a][p] <= config.maxOnTimeMs + LoopPeriod

\* C3 amended: under the control loop no output stays high for longer than
\* 2 * maxOnTimeMs + LoopPeriod (a pulse() call blocks for up to maxOnTimeMs,
\* and no sweep runs meanwhile).
C3_EnergisedWithinPulseAndPeriod ==
    \A a \in ChipAddrs : \A p \in PinIdx :
        highFor[a][p] <= 2 * config.maxOnTimeMs + LoopPeriod

\* update() sweeps an output that was high over a whole pulse() of another
\* channel, longer than maxOnTimeMs + LoopPeriod
C3_Witness ==
    /\ caller.sinceUpdate = LoopPeriod
    /\ caller.calls = 1
    /\ \E g \in ValidChannels :
          /\ Due(g)
          /\ highFor[boardAddresses[BoardOf(g)]][PinOf(g)] > config.maxOnTimeMs + LoopPeriod

\* C4: on an initialised driver with safetyEnabled and the default or the MIDI
\* firmware's settings, on(c) for a valid channel that has never been activated
\* returns OK and turns the channel on.
C4_FirstOnSucceeds ==
    [][ ( /\ op'.name = "on"
          /\ initialized
          /\ op'.a < channelCount
          /\ config \in {SolenoidConfig, MidiConfig}
          /\ channels[op'.a].activationCount = 0
          /\ ~channels[op'.a].isOn )
        => (ret' = OK /\ channels'[op'.a].isOn) ]_vars

\* the calls of the end-to-end scenario and the results stated for them
ScenarioCalls == <<"on", "off", "on", "on">>
ScenarioResults == <<OK, OK, SAFETY_COOLDOWN, OK>>

\* C5: with maxOnTimeMs 2000 and minOffTimeMs 15, the other fields at their
\* defaults and no update(), the calls on(0) at t=0, off(0) at t=2500, on(0) at
\* t=2510 and on(0) at t=2516 return OK, OK, SAFETY_COOLDOWN, OK.
C5_ScenarioResults ==
    ( /\ Len(hist) = Len(ScenarioCalls)
      /\ \A i \in 1 .. Len(hist) :
            /\ hist[i].name = ScenarioCalls[i]
            /\ hist[i].a = 0
            /\ hist[i].t = ScenarioTimes[i] )
    => \A i \in 1 .. Len(hist) : hist[i].ret = ScenarioResults[i]

\* C6: with safetyEnabled and minOffTimeMs > 0, on(c) less than minOffTimeMs
\* after the channel was last turned off returns SAFETY_COOLDOWN and changes no
\* channel object, mask or output.
C6_CooldownDenies ==
    [][ ( /\ op'.name = "on"
          /\ initialized
          /\ op'.a < channelCount
          /\ config.safetyEnabled
          /\ config.minOffTimeMs > 0
          /\ ~channels[op'.a].isOn
          /\ sinceOff[op'.a] >= 0
          /\ sinceOff[op'.a] < config.minOffTimeMs )
        => ( /\ ret' = SAFETY_COOLDOWN
             /\ channels' = channels
             /\ boardStates' = boardStates
             /\ hw' = hw ) ]_vars

\* C7: when on(c) has returned OK the channel is on, its bit of the board's
\* mask is 1 and its output is high.
C7_OnOkEnergises ==
    (op.name = "on" /\ ret = OK) =>
        /\ isOn(S, op.a)
        /\ MaskBit(boardStates, op.a) = 1
        /\ OutputBit(hw, boardAddresses, op.a) = 1

\* on(9) has switched channel 9 of board 1 on
C7_Witness ==
    /\ op = Op("on", 9, 0)
    /\ ret = OK
    /\ channels[9].lastOnTime = now
    /\ channels[9].activationCount = 1

\* C8: timeSinceOff(c) is the time since the channel was last turned off, 0 at
\* the moment it is turned off, and the maximum value only for a channel that
\* has never been turned off.
C8_TimeSinceOffCounts ==
    \A g \in ValidChannels :
        timeSinceOff(channels[g], now) =
            IF sinceOff[g] >= 0 THEN sinceOff[g] ELSE UINT32_MAX

\* C9: on an initialised driver off(c) for a valid channel returns no safety
\* error and leaves the channel off.
C9_OffAlwaysAllowed ==
    (op.name = "off" /\ initialized /\ op.a < channelCount) =>
        /\ ret \notin {SAFETY_COOLDOWN, DUTY_CYCLE_EXCEEDED, SAFETY_TIMEOUT}
        /\ ~isOn(S, op.a)

\* off(0) has switched off a channel that was turned on in this millisecond,
\* under a configuration with cooldown and duty-cycle limit
C9_Witness ==
    /\ op = Op("off", 0, 0)
    /\ ret = OK
    /\ config.safetyEnabled
    /\ RatLt(config.maxDutyCycle, One)
    /\ channels[0].activationCount >= 1
    /\ channels[0].lastOffTime = now
    /\ channels[0].windowOnTime = 0

\* C10: after emergencyStop() and after allOff(), whatever it returned, isOn(c)
\* is false for every channel and getBoardState(b) is 0 for every board.
C10_AllOffAfterStop ==
    (op.name \in {"emergencyStop", "allOff"}) =>
        /\ \A c \in 0 .. GlobalChannel : ~isOn(S, c)
        /\ \A b \in BoardIdx : getBoardState(S, b) = 0
        /\ \A g \in ValidChannels : ~channels[g].isOn
        /\ \A b \in BoardIdx : b < boardCount => boardStates[b] = 0

\* emergencyStop() has switched off channels 0 and 9, the last error being a
\* refusal
C10_Witness ==
    /\ op.name = "emergencyStop"
    /\ lastError # OK
    /\ sinceOff[0] = 0 /\ channels[0].lastOffTime = now
    /\ sinceOff[9] = 0 /\ channels[9].lastOffTime = now

\* C11: after emergencyStop() every output of every chip the driver has written
\* to is low, whatever the state of the driver (uninitialised, after a failed
\* begin(), after a second begin() with fewer boards).
C11_StopDrivesOutputsLow ==
    (op.name = "emergencyStop") => \A a \in ChipAddrs : hw[a] = 0

\* C12: once the driver object is destroyed, every output it has energised is
\* low, also when a begin() that failed came after a successful one.
C12_DestructionDrivesOutputsLow ==
    (op = Destroyed) => \A a \in ChipAddrs : hw[a] = 0

\* the calls i .. i+5 of the record are three activations of DutyPulseMs each,
\* one right after the other, every on(0) returning OK
BackToBack(i) ==
    /\ i + 5 <= Len(hist)
    /\ \A k \in 0 .. 2 :
          /\ hist[i + 2 * k].name = "on"
          /\ hist[i + 2 * k].ret = OK
          /\ hist[i + 2 * k].t = hist[i].t + k * DutyPulseMs
          /\ hist[i + 2 * k + 1].name = "off"
          /\ hist[i + 2 * k + 1].t = hist[i].t + (k + 1) * DutyPulseMs

\* C13: with maxDutyCycle 0.5, dutyCycleWindowMs 1000 and minOffTimeMs 0, an
\* on() that follows three back-to-back activations of 150 ms each, every one
\* of them started by an on() that returned OK, returns DUTY_CYCLE_EXCEEDED.
C13_FourthActivationDenied ==
    \A i \in 1 .. Len(hist) :
        ( /\ BackToBack(i)
          /\ i + 6 <= Len(hist)
          /\ hist[i + 6].name = "on"
          /\ hist[i + 6].t = hist[i].t + 3 * DutyPulseMs )
        => hist[i + 6].ret = DUTY_CYCLE_EXCEEDED

C13_Witness ==
    \E i \in 1 .. Len(hist) :
        /\ BackToBack(i)
        /\ i + 6 <= Len(hist)
        /\ hist[i + 6].name = "on"
        /\ hist[i + 6].t = hist[i].t + 3 * DutyPulseMs
        /\ hist[i + 6].ret = DUTY_CYCLE_EXCEEDED

\* channel p of board b is off, mask m asks for it and the safety check of the
\* channel fails
Blocked(b, m, p) ==
    LET g == b * SOLENOID_CHANNELS_PER_BOARD + p IN
    /\ ~channels[g].isOn
    /\ Bit(m, p) = 1
    /\ ~isSafeToActivate(S, g).safe

\* C14: setBoardChannels(board, mask) with safetyEnabled leaves off every
\* channel of the board that is off, asked for and fails the safety check, and
\* puts every other channel of the board in the state the mask asks for
\* (object, mask bit and output), with one whole-port write; it returns
\* SAFETY_COOLDOWN or DUTY_CYCLE_EXCEEDED if a channel was blocked and OK
\* otherwise.
C14_BoardMaskApplied ==
    [][ ( /\ op = NoCall
          /\ op'.name = "setBoardChannels"
          /\ initialized
          /\ op'.a < boardCount
          /\ config.safetyEnabled )
        => LET b == op'.a
               m == op'.b
           IN /\ \A p \in PinIdx :
                    LET g == b * SOLENOID_CHANNELS_PER_BOARD + p
                        bit == IF Blocked(b, m, p) THEN 0 ELSE Bit(m, p)
                    IN /\ channels'[g].isOn = (bit = 1)
                       /\ Bit(boardStates'[b], p) = bit
                       /\ Bit(hw'[boardAddresses[b]], p) = bit
              /\ setBoardChannels(S, b, m).bus = << <<"writeGPIOA", b, boardStates'[b]>> >>
              /\ (\E p \in PinIdx : Blocked(b, m, p))
                    => ret' \in {SAFETY_COOLDOWN, DUTY_CYCLE_EXCEEDED}
              /\ (\A p \in PinIdx : ~Blocked(b, m, p)) => ret' = OK
      ]_vars

\* setBoardChannels(0, 3) has switched channel 0 on and left channel 1 off
C14_Witness ==
    /\ op = Op("setBoardChannels", 0, 3)
    /\ config.safetyEnabled
    /\ ret = DUTY_CYCLE_EXCEEDED
    /\ channels[0].isOn
    /\ channels[0].lastOnTime = now
    /\ ~channels[1].isOn
    /\ boardStates[0] = 1
    /\ hw[boardAddresses[0]] = 1

\* C15: setAll(states, n) with n >= getBoardCount() applies the mask of every
\* board, also when a channel of an earlier board is blocked, and returns a
\* safety error whenever an activation asked for on any board was blocked; it
\* returns OK only if none was blocked.
C15_SetAllReportsBlocked ==
    [][ ( /\ op = NoCall
          /\ op'.name = "setAll"
          /\ initialized )
        => LET m == <<op'.a, op'.b>>
               blocked(b, p) == config.safetyEnabled /\ Blocked(b, m[b + 1], p)
           IN /\ \A b \in 0 .. boardCount - 1 : \A p \in PinIdx :
                    LET g == b * SOLENOID_CHANNELS_PER_BOARD + p
                        bit == IF blocked(b, p) THEN 0 ELSE Bit(m[b + 1], p)
                    IN /\ channels'[g].isOn = (bit = 1)
                       /\ Bit(boardStates'[b], p) = bit
                       /\ Bit(hw'[boardAddresses[b]], p) = bit
              /\ (\E b \in 0 .. boardCount - 1 : \E p \in PinIdx : blocked(b, p))
                    => ret' \in {SAFETY_COOLDOWN, DUTY_CYCLE_EXCEEDED}
              /\ (\A b \in 0 .. boardCount - 1 : \A p \in PinIdx : ~blocked(b, p))
                    => ret' = OK
      ]_vars

\* on(g) is refused by the safety check in the present state
Denied(g) ==
    /\ ~channels[g].isOn
    /\ config.safetyEnabled
    /\ ~isSafeToActivate(S, g).safe

\* the error reported for the refusal
DenialOf(g) == isSafeToActivate(S, g).s.lastError

\* the refusals of the channels g .. channelCount-1, in index order
RECURSIVE Denials(_)
Denials(g) ==
    IF g >= channelCount THEN <<>>
    ELSE (IF Denied(g) THEN << <<DenialOf(g), g>> >> ELSE <<>>) \o Denials(g + 1)

\* the pin writes that turn on the channels g .. channelCount-1 that are off and
\* not refused, in index order
RECURSIVE Activations(_)
Activations(g) ==
    IF g >= channelCount THEN <<>>
    ELSE (IF ~channels[g].isOn /\ ~Denied(g)
          THEN << <<"digitalWrite", BoardOf(g), PinOf(g)>> >> ELSE <<>>)
         \o Activations(g + 1)

\* C16: allOn() attempts on(c) for every channel in index order; a channel
\* refused with SAFETY_COOLDOWN or DUTY_CYCLE_EXCEEDED does not keep later
\* channels from being turned on; the result is the error of the first channel
\* refused, and OK exactly when every channel is on afterwards; an
\* I2C_COMMUNICATION error ends the iteration at once and is returned.
C16_AllOnKeepsGoing ==
    [][ ( /\ op = NoCall
          /\ op'.name = "allOn"
          /\ initialized )
        => /\ \A g \in ValidChannels :
                 /\ channels'[g].isOn = ~Denied(g)
                 /\ (MaskBit(boardStates', g) = 1) = ~Denied(g)
                 /\ (OutputBit(hw', boardAddresses, g) = 1) = ~Denied(g)
           /\ reported' = Denials(0)
           /\ allOn(S).bus = Activations(0)
           /\ ret' = IF Denials(0) = <<>> THEN OK ELSE Denials(0)[1][1]
           /\ ret' \in {OK, SAFETY_COOLDOWN, DUTY_CYCLE_EXCEEDED}
           /\ (ret' = OK) = (\A g \in ValidChannels : channels'[g].isOn)
      ]_vars

\* allOn() was refused channel 0 and has turned channel 8 on
C16_Witness ==
    /\ op.name = "allOn"
    /\ ret = DUTY_CYCLE_EXCEEDED
    /\ ~channels[0].isOn
    /\ channels[8].isOn
    /\ channels[8].lastOnTime = now
    /\ OutputBit(hw, boardAddresses, 8) = 1

\* the record at the entry of the next call, the caller having looked at the
\* result of the call that left r
Resumed(r) == [r EXCEPT !.reported = <<>>, !.ret = "void", !.bus = <<>>]

\* C17: setBoardChannels(board, mask) made a second time with the same mask, no
\* time having passed and nothing else having been called, changes no
\* channel's state, no mask bit and no output; and at any time a call does not
\* stamp again the turn-on time of a channel that is already on (lastOnTime and
\* activationCount stay as they are).
C17_BoardMaskIdempotent ==
    [][ ( /\ op = NoCall
          /\ op'.name = "setBoardChannels" )
        => LET b == op'.a
               m == op'.b
           IN /\ \A once \in {setBoardChannels(S, b, m)} :
                 \A twice \in {setBoardChannels(Resumed(once), b, m)} :
                    /\ once.channels = channels'
                    /\ \A g \in ChannelIdx : twice.channels[g].isOn = once.channels[g].isOn
                    /\ twice.boardStates = boardStates'
                    /\ twice.hw = hw'
              /\ \A g \in ValidChannels :
                    (BoardOf(g) = b /\ channels[g].isOn /\ Bit(m, PinOf(g)) = 1)
                    => /\ channels'[g].isOn
                       /\ channels'[g].lastOnTime = channels[g].lastOnTime
                       /\ channels'[g].activationCount = channels[g].activationCount
                       /\ onDuration(channels'[g], now') = onDuration(channels[g], now)
      ]_vars

\* setBoardChannels was called with channel 0 in the mask, the channel having
\* been on for a while
C17_Witness ==
    /\ op.name = "setBoardChannels"
    /\ op.a = 0
    /\ Bit(op.b, 0) = 1
    /\ ret = OK
    /\ channels[0].isOn
    /\ onDuration(channels[0], now) > 0
    /\ channels[0].activationCount = 1

\* begin() accepts the array: 1 to 8 addresses, all in 0x20 .. 0x27
ValidBoards(addresses) ==
    /\ Len(addresses) >= 1
    /\ Len(addresses) <= SOLENOID_MAX_BOARDS_PER_BUS
    /\ \A i \in 1 .. Len(addresses) :
          addresses[i] >= MCP23017_BASE_ADDRESS /\ addresses[i] <= MCP23017_MAX_ADDRESS

\* C18: begin() that succeeds with N addresses (1 <= N <= 8, all in 0x20..0x27)
\* gives isInitialized() = true, getBoardCount() = N, getChannelCount() = 8*N,
\* getBoardAddress(i) = addresses[i], every channel off, the mask and the
\* output of every board 0; begin() with N = 0, N > 8 or an address outside
\* 0x20..0x27 returns false with INVALID_BOARD, writes nothing to the hardware
\* and leaves the state the driver had.
C18_BeginEstablishes ==
    [][ ( /\ op = NoCall
          /\ op'.name = "begin" )
        => \A addresses \in {LifeBeginInputs[op'.a]} :
           \A r \in {begin(S, addresses, op'.b)} :
              /\ r.ret = ret'
              /\ r.channels = channels'
              /\ r.boardStates = boardStates'
              /\ r.hw = hw'
              /\ (r.ret = "true") =>
                    /\ ValidBoards(addresses)
                    /\ isInitialized(r)
                    /\ getLastError(r) = OK
                    /\ getBoardCount(r) = Len(addresses)
                    /\ getChannelCount(r) = SOLENOID_CHANNELS_PER_BOARD * Len(addresses)
                    /\ \A i \in 0 .. Len(addresses) - 1 :
                          /\ getBoardAddress(r, i) = addresses[i + 1]
                          /\ getBoardState(r, i) = 0
                          /\ r.hw[addresses[i + 1]] = 0
                    /\ \A g \in 0 .. getChannelCount(r) - 1 :
                          /\ ~isOn(r, g)
                          /\ getChannelState(r, g) = SolenoidChannel(BoardOf(g), PinOf(g), g)
              /\ ~ValidBoards(addresses) =>
                    /\ r.ret = "false"
                    /\ getLastError(r) = INVALID_BOARD
                    /\ r.reported = << <<INVALID_BOARD, GlobalChannel>> >>
                    /\ r.bus = <<>>
                    /\ r.hw = hw
                    /\ isInitialized(r) = initialized
                    /\ getBoardCount(r) = boardCount
                    /\ getChannelCount(r) = channelCount
                    /\ r.boardAddresses = boardAddresses
                    /\ r.boardStates = boardStates
                    /\ r.channels = channels
                    /\ r.config = config
      ]_vars

\* begin() with the two addresses 0x20, 0x21 has succeeded
C18_Witness ==
    /\ op = Op("begin", 2, 2)
    /\ ret = "true"
    /\ initialized
    /\ boardCount = 2
    /\ channelCount = 2 * SOLENOID_CHANNELS_PER_BOARD
    /\ boardAddresses[1] = MCP23017_BASE_ADDRESS + 1
    /\ \A a \in ChipAddrs : hw[a] = 0

\* C19: after a begin() with several addresses that failed at board k > 0 the k
\* boards initialised before the failure remain available: getBoardCount() = k,
\* and on() and off() of their channels are not rejected with NOT_INITIALIZED.
C19_PartialBeginUsable ==
    /\ (op.name = "begin" /\ ret = "false" /\ op.b > 0
             /\ ValidBoards(LifeBeginInputs[op.a]))
        => getBoardCount(S) = op.b
    /\ (op.name \in {"on", "off"} /\ ~isInitialized(S) /\ getBoardCount(S) > 0
             /\ op.a < getChannelCount(S))
        => ret # NOT_INITIALIZED

\* C20: on an initialised driver a call given channel >= getChannelCount()
\* changes no channel object, mask or output: on, off, set, toggle and pulse
\* return INVALID_CHANNEL, isOn gives false and getChannelState gives no
\* channel; setBoardChannels with board >= getBoardCount() returns
\* INVALID_BOARD, and getBoardState and getBoardAddress give 0.
C20_InvalidIndexRejected ==
    [][ /\ ( /\ op = NoCall
              /\ isInitialized(S)
              /\ op'.name \in {"on", "off", "set", "toggle", "pulse"}
              /\ op'.a >= getChannelCount(S) )
            => /\ ret' = INVALID_CHANNEL
               /\ lastError' = INVALID_CHANNEL
               /\ reported' = << <<INVALID_CHANNEL, op'.a>> >>
               /\ UNCHANGED <<channels, boardStates, hw, now>>
               /\ ~isOn(S, op'.a)
               /\ getChannelState(S, op'.a) = nullptr
        /\ ( /\ op = NoCall
              /\ isInitialized(S)
              /\ op'.name = "setBoardChannels"
              /\ op'.a >= getBoardCount(S) )
            => /\ ret' = INVALID_BOARD
               /\ lastError' = INVALID_BOARD
               /\ UNCHANGED <<channels, boardStates, hw, now>>
               /\ getBoardState(S, op'.a) = 0
               /\ getBoardAddress(S, op'.a) = 0
      ]_vars

\* on(16) was rejected by a driver of 16 channels that has a channel on
C20_Witness ==
    /\ op = Op("on", 2 * SOLENOID_CHANNELS_PER_BOARD, 0)
    /\ ret = INVALID_CHANNEL
    /\ initialized
    /\ channelCount = 2 * SOLENOID_CHANNELS_PER_BOARD
    /\ \E g \in ValidChannels : channels[g].isOn

\* the operations that switch channels
ControlCalls ==
    {"on", "off", "set", "toggle", "pulse", "allOn", "allOff", "setAll", "setBoardChannels"}

\* C21: before begin() has succeeded each of on, off, set, toggle, pulse, allOn,
\* allOff, setAll and setBoardChannels returns NOT_INITIALIZED for every
\* argument, writes nothing to the hardware and changes no channel state, and
\* update() does nothing.
C21_UninitialisedRejects ==
    [][ /\ ( /\ op = NoCall
              /\ ~isInitialized(S)
              /\ op'.name \in ControlCalls )
            => /\ ret' = NOT_INITIALIZED
               /\ UNCHANGED <<channels, boardStates, hw, now>>
        /\ ( /\ op = NoCall
              /\ ~isInitialized(S)
              /\ op'.name = "update" )
            => /\ reported' = <<>>
               /\ UNCHANGED <<channels, boardStates, hw, now, lastError>>
      ]_vars

\* the channel numbers the observer may be handed for an error of the call o
AffectedChannels(o) ==
    IF o.name \in {"on", "off", "set", "toggle", "pulse"} THEN {o.a}
    ELSE ValidChannels \cup {GlobalChannel}

\* C22: a control operation that returns an error E has called the error
\* callback during the call with E and the channel concerned (255 if none);
\* update() calls it with SAFETY_TIMEOUT and the channel for every channel it
\* forces off; an operation that returns OK has not called it.
C22_CallbackMirrorsResult ==
    [][ /\ ( /\ op = NoCall
              /\ op'.name \in ControlCalls )
            => /\ ret' # OK
                    => \E i \in 1 .. Len(reported') :
                          /\ reported'[i][1] = ret'
                          /\ reported'[i][2] \in AffectedChannels(op')
               /\ ret' = OK => reported' = <<>>
        /\ ( /\ op = NoCall
              /\ op'.name = "update" )
            => \A g \in ValidChannels :
                  Reports(reported', SAFETY_TIMEOUT, g)
                      = IF channels[g].isOn /\ ~channels'[g].isOn THEN 1 ELSE 0
      ]_vars

\* C23: after each of on, off, set, toggle, pulse, allOn, allOff, setAll and
\* setBoardChannels, getLastError() is the code the operation returned: OK
\* after an operation that returned OK, and the first safety error of a
\* blocked channel after an allOn() that returned it.
C23_LastErrorIsResult ==
    [][ ( /\ op = NoCall
          /\ op'.name \in ControlCalls )
        => getLastError(S)' = ret'
      ]_vars

\* C24: setConfig(cfg) takes effect at once, before or after begin():
\* getConfig() returns cfg and nothing else changes, and the next on(),
\* setBoardChannels(), pulse() and update() are decided with the values of
\* cfg, also for channels switched on or off before the change: update()
\* forces off every channel whose onDuration() has reached the maxOnTimeMs now
\* set.
C24_ConfigTakesEffect ==
    [][ /\ ( op = NoCall /\ op'.name = "setConfig" )
            => /\ getConfig(S)' = TuneConfigs[op'.a]
               /\ UNCHANGED <<initialized, channels, boardStates, hw, lastError, now>>
        /\ ( op = NoCall /\ op'.name = "update" /\ initialized )
            => \A g \in ValidChannels :
                  channels'[g].isOn
                      = ( channels[g].isOn
                          /\ ~( getConfig(S).maxOnTimeMs > 0
                                /\ onDuration(channels[g], now) >= getConfig(S).maxOnTimeMs ) )
        /\ ( /\ op = NoCall /\ op'.name = "on" /\ initialized
              /\ op'.a \in ValidChannels /\ ~channels[op'.a].isOn )
            => LET cooling == /\ getConfig(S).safetyEnabled
                              /\ getConfig(S).minOffTimeMs > 0
                              /\ timeSinceOff(channels[op'.a], now) < getConfig(S).minOffTimeMs
               IN /\ cooling <=> ret' = SAFETY_COOLDOWN
                  /\ ~getConfig(S).safetyEnabled => ret' = OK
                  /\ channels'[op'.a].isOn <=> ret' = OK
        /\ ( op = NoCall /\ op'.name = "pulse" /\ ret' = OK )
            => elapsed' - elapsed
                  = IF getConfig(S).maxOnTimeMs > 0 /\ op'.b > getConfig(S).maxOnTimeMs
                    THEN getConfig(S).maxOnTimeMs ELSE op'.b
        /\ ( /\ op = NoCall /\ op'.name = "setBoardChannels" /\ initialized
              /\ op'.a < boardCount )
            => \A p \in PinIdx :
                  channels'[op'.a * SOLENOID_CHANNELS_PER_BOARD + p].isOn
                      = ( /\ Bit(op'.b, p) = 1
                          /\ ~(getConfig(S).safetyEnabled /\ Blocked(op'.a, op'.b, p)) )
      ]_vars

\* channel 0 was switched on under a limit of 2 ms; after 1 ms the limit was
\* lowered to 1 ms and the update() that followed has forced the channel off
C24_Witness ==
    /\ op = Op("update", 0, 0)
    /\ Reports(reported, SAFETY_TIMEOUT, 0) = 1
    /\ ~channels[0].isOn
    /\ channels[0].activationCount = 1
    /\ hist = << [name |-> "setConfig", a |-> 2, t |-> elapsed, ret |-> "void"] >>
    /\ elapsed = 1
    /\ getConfig(S) = TuneConfigs[2]
    /\ TuneConfigs[1].maxOnTimeMs > elapsed

\* C25: resetAllStats() leaves the on/off state, the last-on and last-off
\* times of every channel and the outputs as they are, and the on(c) that
\* follows it for a channel that is off and past its cooldown is not refused
\* with DUTY_CYCLE_EXCEEDED.
C25_ResetClearsDutyHistory ==
    [][ /\ ( op = NoCall /\ op'.name = "resetAllStats" )
            => /\ \A g \in ChannelIdx :
                     /\ channels'[g].isOn = channels[g].isOn
                     /\ channels'[g].lastOnTime = channels[g].lastOnTime
                     /\ channels'[g].lastOffTime = channels[g].lastOffTime
               /\ UNCHANGED <<boardStates, hw, now, initialized, config>>
        /\ ( /\ op = NoCall /\ op'.name = "on"
              /\ hist # <<>> /\ hist[Len(hist)].name = "resetAllStats"
              /\ op'.a \in ValidChannels /\ ~channels[op'.a].isOn
              /\ timeSinceOff(channels[op'.a], now) >= config.minOffTimeMs )
            => ret' # DUTY_CYCLE_EXCEEDED
      ]_vars

\* time the output of channel g has been high without a break
EnergisedFor(g) == highFor[boardAddresses[BoardOf(g)]][PinOf(g)]

\* the on/off state of a channel object with its time stamps and counters, the
\* duty-cycle window left out
Switching(ch) ==
    [ isOn |-> ch.isOn, lastOnTime |-> ch.lastOnTime, lastOffTime |-> ch.lastOffTime,
      totalOnTime |-> ch.totalOnTime, activationCount |-> ch.activationCount ]

\* C26 as stated: pulse(c, d) returns the error of on(c) without sleeping and
\* without changing the channel; otherwise it sleeps min(d, maxOnTimeMs) (d if
\* maxOnTimeMs = 0), the channel is off when it returns and was energised for
\* no longer than maxOnTimeMs in all.
C26_PulseWithinLimit ==
    [][ ( op = NoCall /\ op'.name = "pulse" )
        => \A r \in {on(S, op'.a)} :
              /\ r.ret # OK
                    => /\ ret' = r.ret
                       /\ elapsed' = elapsed
                       /\ \A g \in ChannelIdx :
                             Switching(channels'[g]) = Switching(channels[g])
                       /\ UNCHANGED <<boardStates, hw>>
              /\ r.ret = OK
                    => /\ ret' = OK
                       /\ elapsed' - elapsed
                             = IF config.maxOnTimeMs > 0 /\ op'.b > config.maxOnTimeMs
                               THEN config.maxOnTimeMs ELSE op'.b
                       /\ ~channels'[op'.a].isOn
                       /\ OutputBit(hw', boardAddresses, op'.a) = 0
                       /\ config.maxOnTimeMs > 0
                             => EnergisedFor(op'.a) + (elapsed' - elapsed)
                                   <= config.maxOnTimeMs
      ]_vars

\* C26 (amended): pulse(c, d) returns the error of on(c) without sleeping and
\* without switching any channel or output (the safety check may restart the
\* duty-cycle window); otherwise it sleeps min(d, maxOnTimeMs) (d if
\* maxOnTimeMs = 0) and the channel is off when it returns.  The channel was
\* energised for the sleep if it was off at the call, which is at most
\* maxOnTimeMs when that is set, and for its onDuration() at the call plus the
\* sleep if it was on already.
C26_PulseSleepsClamped ==
    [][ ( op = NoCall /\ op'.name = "pulse" )
        => \A r \in {on(S, op'.a)} :
              /\ r.ret # OK
                    => /\ ret' = r.ret
                       /\ elapsed' = elapsed
                       /\ \A g \in ChannelIdx :
                             Switching(channels'[g]) = Switching(channels[g])
                       /\ UNCHANGED <<boardStates, hw>>
              /\ r.ret = OK
                    => /\ ret' = OK
                       /\ elapsed' - elapsed
                             = IF config.maxOnTimeMs > 0 /\ op'.b > config.maxOnTimeMs
                               THEN config.maxOnTimeMs ELSE op'.b
                       /\ ~channels'[op'.a].isOn
                       /\ OutputBit(hw', boardAddresses, op'.a) = 0
                       /\ Sub32(channels'[op'.a].totalOnTime, channels[op'.a].totalOnTime)
                             = onDuration(channels[op'.a], now) + (elapsed' - elapsed)
                       /\ (config.maxOnTimeMs > 0 /\ ~channels[op'.a].isOn)
                             => Sub32(channels'[op'.a].totalOnTime,
                                      channels[op'.a].totalOnTime) <= config.maxOnTimeMs
      ]_vars

\* pulse(0, 4) under a limit of 2 ms on a channel that had been on for 1 ms:
\* the channel is off and has been energised for 3 ms
C26_Witness ==
    /\ op = Op("pulse", 0, 4)
    /\ ret = OK
    /\ config.maxOnTimeMs = 2
    /\ ~channels[0].isOn
    /\ channels[0].activationCount = 1
    /\ channels[0].totalOnTime = 3

\* C27 as stated: with safetyEnabled, on(c) for a channel that is off returns
\* SAFETY_COOLDOWN if minOffTimeMs > 0 and timeSinceOff(c) < minOffTimeMs,
\* otherwise DUTY_CYCLE_EXCEEDED if the on-time fraction of the window is >=
\* maxDutyCycle or the projected fraction is > maxDutyCycle, otherwise OK; a
\* cooldown refusal leaves the duty window data alone.
C27_ChecksInOrder ==
    [][ ( /\ op = NoCall /\ op'.name = "on" /\ initialized
          /\ config.safetyEnabled
          /\ op'.a \in ValidChannels /\ ~channels[op'.a].isOn )
        => LET ch == channels[op'.a]
               cooling == /\ config.minOffTimeMs > 0
                          /\ timeSinceOff(ch, now) < config.minOffTimeMs
               over == RatGe(getDutyCyclePercent(ch, config.dutyCycleWindowMs, now),
                             config.maxDutyCycle)
               projected ==
                   wouldExceedDutyCycle(dutyWindowChannel(ch, config.dutyCycleWindowMs, now),
                                        config.dutyCycleWindowMs, config.maxDutyCycle,
                                        estimatedOnTime(config), now)
           IN /\ ret' = IF cooling THEN SAFETY_COOLDOWN
                        ELSE IF over \/ projected THEN DUTY_CYCLE_EXCEEDED
                        ELSE OK
              /\ cooling => channels'[op'.a] = ch
      ]_vars

\* C27 (amended): with safetyEnabled, on(c) for a channel that is off returns
\* SAFETY_COOLDOWN if minOffTimeMs > 0 and timeSinceOff(c) < minOffTimeMs
\* (equal is allowed); otherwise, provided maxDutyCycle < 1.0 and
\* dutyCycleWindowMs > 0, DUTY_CYCLE_EXCEEDED if the on-time fraction of the
\* window is >= maxDutyCycle or the projected fraction is > maxDutyCycle
\* (equal is allowed); otherwise OK.  A cooldown refusal leaves the duty
\* window data alone.
C27_ChecksInOrderWhenLimited ==
    [][ ( /\ op = NoCall /\ op'.name = "on" /\ initialized
          /\ config.safetyEnabled
          /\ op'.a \in ValidChannels /\ ~channels[op'.a].isOn )
        => LET ch == channels[op'.a]
               cooling == /\ config.minOffTimeMs > 0
                          /\ timeSinceOff(ch, now) < config.minOffTimeMs
               limited == RatLt(config.maxDutyCycle, One) /\ config.dutyCycleWindowMs > 0
               over == RatGe(getDutyCyclePercent(ch, config.dutyCycleWindowMs, now),
                             config.maxDutyCycle)
               projected ==
                   wouldExceedDutyCycle(dutyWindowChannel(ch, config.dutyCycleWindowMs, now),
                                        config.dutyCycleWindowMs, config.maxDutyCycle,
                                        estimatedOnTime(config), now)
           IN /\ ret' = IF cooling THEN SAFETY_COOLDOWN
                        ELSE IF limited /\ (over \/ projected) THEN DUTY_CYCLE_EXCEEDED
                        ELSE OK
              /\ cooling => channels'[op'.a] = ch
              /\ ret' = OK <=> channels'[op'.a].isOn
      ]_vars

\* on(0) has succeeded exactly minOffTimeMs after the channel went off, with
\* the projected duty cycle exactly at maxDutyCycle < 1.0
C27_Witness ==
    /\ op = Op("on", 0, 0)
    /\ ret = OK
    /\ config.safetyEnabled
    /\ config.minOffTimeMs > 0
    /\ sinceOff[0] = config.minOffTimeMs
    /\ RatLt(config.maxDutyCycle, One)
    /\ channels[0].lastOnTime = now
    /\ (channels[0].windowOnTime + estimatedOnTime(config)) * config.maxDutyCycle.d
          = config.maxDutyCycle.n
              * (Sub32(now, channels[0].windowStartTime) + estimatedOnTime(config))

\* on(c) of the step reaches the projection of the duty cycle: the channel is
\* off, past its cooldown, and the on-time fraction of the window is below
\* the limit
Projecting(c) ==
    /\ initialized /\ config.safetyEnabled
    /\ c \in ValidChannels /\ ~channels[c].isOn
    /\ ~(config.minOffTimeMs > 0 /\ timeSinceOff(channels[c], now) < config.minOffTimeMs)
    /\ RatLt(config.maxDutyCycle, One) /\ config.dutyCycleWindowMs > 0
    /\ ~RatGe(getDutyCyclePercent(channels[c], config.dutyCycleWindowMs, now),
              config.maxDutyCycle)

\* the projection of the duty cycle of channel c for an activation of est ms
\* is over the limit
ProjectionOver(c, est) ==
    wouldExceedDutyCycle(dutyWindowChannel(channels[c], config.dutyCycleWindowMs, now),
                         config.dutyCycleWindowMs, config.maxDutyCycle, est, now)

\* C28 as stated: the on-time assumed for the projection of the duty cycle
\* before an activation is minOffTimeMs but never less than 100 ms, whatever
\* minOffTimeMs is.
C28_EstimateNeverBelowDefault ==
    [][ ( op = NoCall /\ op'.name = "on" /\ Projecting(op'.a) )
        => ( ret' = DUTY_CYCLE_EXCEEDED
             <=> ProjectionOver(op'.a, IF config.minOffTimeMs >= 100
                                       THEN config.minOffTimeMs ELSE 100) )
      ]_vars

\* C28 (amended): the on-time assumed for the projection of the duty cycle
\* before an activation is minOffTimeMs when minOffTimeMs > 0, also when that
\* is less than 100 ms, and 100 ms when minOffTimeMs = 0.
C28_EstimateIsCooldownOrDefault ==
    [][ ( op = NoCall /\ op'.name = "on" /\ Projecting(op'.a) )
        => /\ ret' \in {OK, DUTY_CYCLE_EXCEEDED}
           /\ ret' = DUTY_CYCLE_EXCEEDED
                 <=> ProjectionOver(op'.a, IF config.minOffTimeMs > 0
                                           THEN config.minOffTimeMs ELSE 100)
      ]_vars

\* on(0) has succeeded with a cooldown time below 100 ms at a moment when the
\* projection for 100 ms is over the limit
C28_Witness ==
    /\ op = Op("on", 0, 0)
    /\ ret = OK
    /\ config.minOffTimeMs > 0
    /\ config.minOffTimeMs < 100
    /\ channels[0].lastOnTime = now
    /\ wouldExceedDutyCycle(channels[0], config.dutyCycleWindowMs, config.maxDutyCycle,
                            100, now)

\* C29: on(c) for a channel that is on returns OK, writes nothing to the
\* hardware and leaves the channel's turn-on time, activation count and duty
\* window data as they are, also when a new activation would be refused, so
\* that the time at which the channel times out does not move; off(c) for a
\* channel that is off returns OK and leaves its last-off time as it is.
C29_NoOpInTargetState ==
    [][ /\ ( /\ op = NoCall /\ op'.name = "on" /\ initialized
              /\ op'.a \in ValidChannels /\ channels[op'.a].isOn )
            => /\ ret' = OK
               /\ on(S, op'.a).bus = <<>>
               /\ UNCHANGED <<channels, boardStates, hw, highFor, now>>
               /\ onDuration(channels'[op'.a], now') = onDuration(channels[op'.a], now)
        /\ ( /\ op = NoCall /\ op'.name = "off" /\ initialized
              /\ op'.a \in ValidChannels /\ ~channels[op'.a].isOn )
            => /\ ret' = OK
               /\ off(S, op'.a).bus = <<>>
               /\ UNCHANGED <<channels, boardStates, hw, sinceOff, now>>
               /\ timeSinceOff(channels'[op'.a], now') = timeSinceOff(channels[op'.a], now)
      ]_vars

\* on(0) has returned OK for a channel that has been on for a while and that
\* the safety check would refuse to activate now
C29_Witness ==
    /\ op = Op("on", 0, 0)
    /\ ret = OK
    /\ channels[0].isOn
    /\ onDuration(channels[0], now) > 0
    /\ config.safetyEnabled
    /\ ~isSafeToActivate(S, 0).safe

\* channel g is on in the channel objects chs, the cached masks and the
\* output latches ports
EnergisedIn(chs, masks, ports, g) ==
    /\ chs[g].isOn
    /\ Bit(masks[BoardOf(g)], PinOf(g)) = 1
    /\ OutputBit(ports, boardAddresses, g) = 1

\* C30: with safetyEnabled = false on an initialised driver on(c), set(c,
\* true), toggle(c) of a channel that is off, allOn(), setAll() and
\* setBoardChannels() never return SAFETY_COOLDOWN or DUTY_CYCLE_EXCEEDED and
\* switch on every valid channel asked for, whatever its cooldown and
\* duty-cycle history.
C30_NoChecksWhenSafetyOff ==
    [][ ( op = NoCall /\ initialized /\ ~config.safetyEnabled )
        => LET asked ==
                   IF op'.name = "on" THEN {op'.a}
                   ELSE IF op'.name = "set" /\ op'.b = 1 THEN {op'.a}
                   ELSE IF op'.name = "toggle" /\ op'.a \in ValidChannels
                           /\ ~channels[op'.a].isOn THEN {op'.a}
                   ELSE IF op'.name = "allOn" THEN ValidChannels
                   ELSE IF op'.name = "setAll"
                   THEN { g \in ValidChannels :
                            Bit(<<op'.a, op'.b>>[BoardOf(g) + 1], PinOf(g)) = 1 }
                   ELSE IF op'.name = "setBoardChannels" /\ op'.a < boardCount
                   THEN { g \in ValidChannels :
                            BoardOf(g) = op'.a /\ Bit(op'.b, PinOf(g)) = 1 }
                   ELSE {}
           IN /\ op'.name \in {"on", "set", "toggle", "allOn", "setAll", "setBoardChannels"}
                    => ret' \notin {SAFETY_COOLDOWN, DUTY_CYCLE_EXCEEDED}
              /\ \A g \in asked \cap ValidChannels :
                    EnergisedIn(channels', boardStates', hw', g)
      ]_vars

\* with the safety checks off on(0) has switched the channel on in the
\* millisecond in which it went off, inside its cooldown time
C30_Witness ==
    /\ op = Op("on", 0, 0)
    /\ ret = OK
    /\ ~config.safetyEnabled
    /\ config.minOffTimeMs > 0
    /\ sinceOff[0] >= 0
    /\ sinceOff[0] < config.minOffTimeMs
    /\ channels[0].lastOnTime = now
    /\ EnergisedIn(channels, boardStates, hw, 0)

\* C31: the duty window of a channel starts at its first activation; an
\* on(c) made when dutyCycleWindowMs or more have passed since the window
\* start resets the window (start = now, on-time = 0) and is then let
\* through by the duty-cycle check, whatever on-time the expired window held.
C31_ExpiredWindowPermits ==
    [][ ( /\ op = NoCall /\ op'.name = "on" /\ initialized
          /\ config.safetyEnabled
          /\ op'.a \in ValidChannels /\ ~channels[op'.a].isOn
          /\ ~(config.minOffTimeMs > 0
                /\ timeSinceOff(channels[op'.a], now) < config.minOffTimeMs)
          /\ RatLt(config.maxDutyCycle, One) /\ config.dutyCycleWindowMs > 0 )
        => /\ ( /\ channels[op'.a].windowStartTime # 0
                /\ Sub32(now, channels[op'.a].windowStartTime) >= config.dutyCycleWindowMs )
              => /\ ret' = OK
                 /\ channels'[op'.a].isOn
                 /\ channels'[op'.a].windowStartTime = now
                 /\ channels'[op'.a].windowOnTime = 0
           /\ ( channels[op'.a].windowStartTime = 0 /\ ret' = OK )
              => channels'[op'.a].windowStartTime = now
      ]_vars

\* C32: in every reachable state the duty cycle getDutyCyclePercent()
\* computes for a channel lies between 0.0 and 1.0: the on-time counted in
\* the window is never more than the time since the window start.
C32_DutyCycleWithinUnit ==
    \A g \in ValidChannels :
        \A pct \in {getDutyCyclePercent(channels[g], config.dutyCycleWindowMs, now)} :
            /\ RatGe(pct, Zero)
            /\ RatGe(One, pct)

\* C33: every channel g below getChannelCount() carries globalIndex g,
\* boardIndex g div 8 and channelIndex g mod 8, with boardIndex below
\* getBoardCount(), and globalToLocal(g) is exactly that pair.
C33_ChannelIndices ==
    \A g \in ValidChannels :
        /\ channels[g].globalIndex = g
        /\ channels[g].boardIndex = g \div SOLENOID_CHANNELS_PER_BOARD
        /\ channels[g].channelIndex = g % SOLENOID_CHANNELS_PER_BOARD
        /\ g = channels[g].boardIndex * SOLENOID_CHANNELS_PER_BOARD + channels[g].channelIndex
        /\ channels[g].channelIndex < SOLENOID_CHANNELS_PER_BOARD
        /\ channels[g].boardIndex < boardCount
        /\ globalToLocal(g) = [ board        |-> channels[g].boardIndex,
                                localChannel |-> channels[g].channelIndex ]

\* two boards are in use and channel 9, the second channel of the second
\* board, has been switched on
C33_Witness ==
    /\ initialized /\ boardCount = Cardinality(ChipAddrs)
    /\ channelCount = Cardinality(ChipAddrs) * SOLENOID_CHANNELS_PER_BOARD
    /\ channels[9].isOn

\* C34: for every board b below getBoardCount(), bit i of the cached output
\* mask getBoardState(b) is the value last written to output i of that board,
\* by a single-pin write, a whole-port write, begin() or emergencyStop().
C34_MaskIsLastWritten ==
    \A b \in 0 .. (Cardinality(ChipAddrs) - 1) :
        b < boardCount =>
            \A i \in PinIdx :
                Bit(getBoardState(S, b), i) = Bit(hw[boardAddresses[b]], i)

\* channel 0 is on and channel 9 has just been switched on by a single-pin
\* write of the second board
C34_Witness ==
    /\ op.name = "on" /\ op.a = 9 /\ ret = OK
    /\ boardCount = Cardinality(ChipAddrs)
    /\ Bit(boardStates[0], 0) = 1
    /\ Bit(boardStates[1], 1) = 1
    /\ hw[boardAddresses[1]] = boardStates[1]

\* C35: between public operations, for every board b below getBoardCount()
\* and every pin i, bit i of getBoardState(b) is set exactly when
\* isOn(8*b + i) is true.
C35_MaskAgreesWithChannels ==
    \A b \in 0 .. (Cardinality(ChipAddrs) - 1) :
        b < boardCount =>
            \A i \in PinIdx :
                (Bit(getBoardState(S, b), i) = 1)
                    <=> isOn(S, SOLENOID_CHANNELS_PER_BOARD * b + i)

\* setBoardChannels has just switched channel 0 on through the mask
C35_Witness ==
    /\ op.name = "setBoardChannels" /\ ret = OK
    /\ Bit(boardStates[0], 0) = 1
    /\ channels[0].isOn

\* C36: every hardware output that is high belongs to a channel below
\* getChannelCount() of an initialised driver whose isOn() is true; no output
\* stays energised that the driver no longer tracks.
C36_HighOutputsTracked ==
    \A addr \in ChipAddrs : \A i \in PinIdx :
        Bit(hw[addr], i) = 1 =>
            /\ initialized
            /\ \E b \in 0 .. (Cardinality(ChipAddrs) - 1) :
                  /\ b < boardCount
                  /\ boardAddresses[b] = addr
                  /\ SOLENOID_CHANNELS_PER_BOARD * b + i < channelCount
                  /\ isOn(S, SOLENOID_CHANNELS_PER_BOARD * b + i)

\* C37: once begin() has succeeded isInitialized() stays true under every
\* later public operation, a later begin() that fails included: there is no
\* step from Initialized back to Uninitialized.
C37_StaysInitialized ==
    [][ isInitialized(S) => initialized' ]_vars

\* C38: an on(c) that is denied (SAFETY_COOLDOWN, DUTY_CYCLE_EXCEEDED,
\* INVALID_CHANNEL or NOT_INITIALIZED) writes nothing to the hardware and
\* leaves isOn, the output masks, the last-on and last-off time stamps and the
\* activation count of every channel as they were, and the duty window of
\* every channel other than c as it was.
C38_DeniedOnChangesNothing ==
    [][ ( /\ op = NoCall /\ op'.name = "on"
          /\ ret' \in {SAFETY_COOLDOWN, DUTY_CYCLE_EXCEEDED, INVALID_CHANNEL, NOT_INITIALIZED} )
        => /\ \A r \in {on(S, op'.a)} : r.bus = <<>>
           /\ hw' = hw
           /\ boardStates' = boardStates
           /\ \A g \in ChannelIdx :
                 /\ channels'[g].isOn = channels[g].isOn
                 /\ channels'[g].lastOnTime = channels[g].lastOnTime
                 /\ channels'[g].lastOffTime = channels[g].lastOffTime
                 /\ channels'[g].activationCount = channels[g].activationCount
                 /\ g # op'.a =>
                       /\ channels'[g].windowStartTime = channels[g].windowStartTime
                       /\ channels'[g].windowOnTime = channels[g].windowOnTime
      ]_vars

\* on(0) has just been refused for the cooldown while channel 9 is on
C38_Witness ==
    /\ op.name = "on" /\ op.a = 0 /\ ret = SAFETY_COOLDOWN
    /\ channels[9].isOn /\ ~channels[0].isOn
    /\ channels[0].activationCount > 0

\* a byte 'x' or 'c' waits in the receive buffer
StopPending == \E i \in 1 .. Len(caller.serial) : caller.serial[i] \in {"x", "c"}

\* C39: in continuous SOS mode an 'x' or 'c' that arrives while an S-O-S
\* sequence is being played stops the playback before the sequence is
\* complete: playSOS() does not run to its last element with the command
\* waiting.
C39_StopInterruptsSequence ==
    [][ ( caller.pc \in {"element", "delay"} /\ StopPending )
        => ~( caller.pc = "delay" /\ caller.step = Len(playSOS)
              /\ caller'.pc = "played" )
      ]_vars

====
